---- MODULE Spec2Model ----
(***************************************************************************)
(* A model of the moving-estimate service: the item-resolution engine      *)
(* (app/text_utils.py, app/catalog.py, app/resolver.py) and the pricing    *)
(* optimizer (app/pricing.py, app/rules.py, app/quotes.py).                *)
(*                                                                         *)
(* Strings.  A Python str is modelled as the tuple of its characters, each *)
(* a one-character TLA+ string: "box 1.5" is <<"b","o","x"," ","1",".",    *)
(* "5">>.  Labels, aliases, item ids, tokens and box sizes are all such    *)
(* tuples, so that normalisation, tokenisation, trigram vectors and        *)
(* difflib's matching blocks are computed character by character, as the   *)
(* code computes them.  Category names, reason codes and assumption types  *)
(* are only ever compared with one another and stay TLA+ strings.          *)
(*                                                                         *)
(* Floats.  Similarity scores and confidences are fixed-point thousandths  *)
(* (0.65 is 650), each ratio rounded down.  Box targets and prices are     *)
(* exact rationals over a common denominator.                              *)
(***************************************************************************)
EXTENDS Integers, Sequences, FiniteSets, TLC

VARIABLES
    catalog,    \* the shared Catalog built at startup (app/catalog.py)
    rules,      \* the shared MovingRules (app/rules.py)
    op,         \* the last operation that ran: its name and its arguments
    boxes,      \* result of the last allocate_boxes call
    rr,         \* outcome of the last resolve_inventory call
    prev,       \* first outcome recorded for each resolve_inventory input
    quote,      \* outcome of the last optimize / compute_quote call
    ret,        \* value returned by the last call of a function or method
    store,      \* the records of the IdempotencyStore (app/security.py)
    clock,      \* time.time()
    packing_catalog \* the shared PackingCatalog (app/packing.py)

vars == <<catalog, rules, op, boxes, rr, prev, quote, ret, store, clock, packing_catalog>>

(***************************************************************************)
(* Generic helpers on sequences.                                           *)
(***************************************************************************)
Range(s) == {s[i] : i \in 1..Len(s)}

RECURSIVE SumSeq(_)
SumSeq(s) == IF s = <<>> THEN 0 ELSE Head(s) + SumSeq(Tail(s))

RECURSIVE Concat(_)
Concat(ss) == IF ss = <<>> THEN <<>> ELSE Head(ss) \o Concat(Tail(ss))

Max(a, b) == IF a >= b THEN a ELSE b
Min(a, b) == IF a <= b THEN a ELSE b
Abs(a) == IF a >= 0 THEN a ELSE -a
CeilDiv(a, b) == -((-a) \div b)

EndsWith(t, suffix) ==
    /\ Len(t) >= Len(suffix)
    /\ SubSeq(t, Len(t) - Len(suffix) + 1, Len(t)) = suffix

\* the sequence s with its elements computed, once
Listed(s) == SubSeq(s, 1, Len(s))

\* str.join: the strings of parts with sep between them
RECURSIVE Join(_, _)
Join(parts, sep) ==
    IF parts = <<>> THEN <<>>
    ELSE IF Len(parts) = 1 THEN parts[1]
    ELSE parts[1] \o sep \o Join(Tail(parts), sep)

\* str.split() and _WORD_SEP.split with empty tokens dropped: the maximal
\* runs of non-blank characters, in order
tokenize(normalized) ==
    LET s == Listed(normalized)
        starts == {i \in 1..Len(s) : s[i] # " " /\ (i = 1 \/ s[i - 1] = " ")}
        StartOf(k) == CHOOSE i \in starts : Cardinality({j \in starts : j < i}) = k - 1
        EndOf(i) == CHOOSE j \in i..Len(s) :
                        /\ \A k \in i..j : s[k] # " "
                        /\ j = Len(s) \/ s[j + 1] = " "
    IN Listed([k \in 1..Cardinality(starts) |-> SubSeq(s, StartOf(k), EndOf(StartOf(k)))])

(***************************************************************************)
(* app/text_utils.py                                                       *)
(***************************************************************************)
LowerLetters == Range(<<"a","b","c","d","e","f","g","h","i","j","k","l","m","n","o","p","q","r","s","t","u","v","w","x","y","z">>)
DigitChars == Range(<<"0","1","2","3","4","5","6","7","8","9">>)

\* str.lower on the characters the model's labels use
UpperToLower ==
    [c \in Range(<<"A","B","C","D","E","F","G","H","I","J","K","L","M","N","O","P","Q","R","S","T","U","V","W","X","Y","Z">>) |->
        LET i == CHOOSE k \in 1..26 : <<"A","B","C","D","E","F","G","H","I","J","K","L","M","N","O","P","Q","R","S","T","U","V","W","X","Y","Z">>[k] = c
        IN <<"a","b","c","d","e","f","g","h","i","j","k","l","m","n","o","p","q","r","s","t","u","v","w","x","y","z">>[i]]

LowerChar(c) == IF c \in DOMAIN UpperToLower THEN UpperToLower[c] ELSE c

\* str.lower
Lower(text) == [i \in 1..Len(text) |-> LowerChar(text[i])]

\* unicodedata.normalize("NFKD") followed by dropping the combining marks:
\* an accented letter loses its accent, every other character is kept
_ascii_fold(text) ==
    [i \in 1..Len(text) |->
        CASE text[i] = "é" -> "e"
          [] text[i] = "è" -> "e"
          [] text[i] = "ü" -> "u"
          [] OTHER -> text[i]]

\* raw.lower().strip(), the fold, "_" and "-" to blanks, and _NON_ALNUM: each
\* character outside [a-z0-9 ] becomes a blank (a run of them becomes one
\* blank in the code; the split that follows does not tell the difference)
Cleaned(folded) ==
    Listed([i \in 1..Len(folded) |->
               IF folded[i] \in LowerLetters \cup DigitChars THEN folded[i] ELSE " "])

Working(raw) == Cleaned(Listed(_ascii_fold([i \in 1..Len(raw) |-> LowerChar(raw[i])])))

\* float(token) succeeds: of the tokens left by _NON_ALNUM these are the
\* digit strings, the exponent forms and the names of the special values
FloatLiteral(token) ==
    \/ token \in {<<"i","n","f">>, <<"n","a","n">>, <<"i","n","f","i","n","i","t","y">>}
    \/ \E k \in 2..(Len(token) - 1) :
          /\ token[k] = "e"
          /\ \A i \in 1..Len(token) : i # k => token[i] \in DigitChars

_is_numeric(token) ==
    /\ token # <<>>
    /\ \/ \A i \in 1..Len(token) : token[i] \in DigitChars
       \/ FloatLiteral(token)

DropLast(t, n) == SubSeq(t, 1, Len(t) - n)

singularize(token) ==
    IF token = <<>> \/ _is_numeric(token) THEN token
    ELSE IF EndsWith(token, <<"i","e","s">>) /\ Len(token) > 3 THEN DropLast(token, 3) \o <<"y">>
    ELSE IF EndsWith(token, <<"v","e","s">>) /\ Len(token) > 3 THEN DropLast(token, 3) \o <<"f">>
    ELSE IF EndsWith(token, <<"s","e","s">>) /\ Len(token) > 3 THEN DropLast(token, 2)
    ELSE IF EndsWith(token, <<"x","e","s">>) /\ Len(token) > 3 THEN DropLast(token, 2)
    ELSE IF EndsWith(token, <<"s">>) /\ Len(token) > 3 THEN DropLast(token, 1)
    ELSE token

_PAIR_REORDER ==
    (<<<<"s","m","a","l","l">>, <<"b","o","x">>>> :> <<<<"b","o","x">>, <<"1",".","5">>>>)
    @@ (<<<<"m","e","d","i","u","m">>, <<"b","o","x">>>> :> <<<<"b","o","x">>, <<"3",".","0">>>>)
    @@ (<<<<"l","a","r","g","e">>, <<"b","o","x">>>> :> <<<<"b","o","x">>, <<"4",".","5">>>>)
    @@ (<<<<"e","x","t","r","a">>, <<"l","a","r","g","e">>, <<"b","o","x">>>> :> <<<<"b","o","x">>, <<"6",".","0">>>>)
    @@ (<<<<"x","l">>, <<"b","o","x">>>> :> <<<<"b","o","x">>, <<"6",".","0">>>>)

\* the singular of each token of the split label
Singulars(split) == Listed([i \in 1..Len(split) |-> singularize(split[i])])

\* the table's reordering of a size and "box", else a trailing "box" moved
\* to the front
Reordered(tokens) ==
    IF Len(tokens) \in {2, 3}
    THEN IF tokens \in DOMAIN _PAIR_REORDER THEN _PAIR_REORDER[tokens]
         ELSE IF tokens[Len(tokens)] = <<"b","o","x">> /\ tokens[1] # <<"b","o","x">>
              THEN <<<<"b","o","x">>>> \o SubSeq(tokens, 1, Len(tokens) - 1)
              ELSE tokens
    ELSE tokens

normalize_label(raw) == Join(Reordered(Singulars(tokenize(Working(raw)))), <<" ">>)

\* unigrams plus adjacent bigrams
WithBigrams(tokens) ==
    tokens \o [i \in 1..Max(0, Len(tokens) - 1) |-> tokens[i] \o <<" ">> \o tokens[i + 1]]

generate_tokens(normalized) == WithBigrams(tokenize(normalized))

\* Counter of the 3-character windows of the blank-padded string, as a
\* function from trigram to count
trigram_vector(normalized) ==
    LET padded == IF normalized = <<>> THEN <<>> ELSE <<" ">> \o normalized \o <<" ">>
        grams == {SubSeq(padded, i, i + 2) : i \in 1..(Len(padded) - 2)}
    IN [g \in grams |->
            Cardinality({i \in 1..(Len(padded) - 2) : SubSeq(padded, i, i + 2) = g})]

\* sum(vec_a[k] * vec_b[k] for k in keys): the products are the sizes of
\* disjoint sets of triples
DotProduct(vec_a, vec_b, keys) ==
    Cardinality(UNION {{k} \X (1..vec_a[k]) \X (1..vec_b[k]) : k \in keys})

\* floor of the square root, by bisection on lo..hi
RECURSIVE IsqrtIn(_, _, _)
IsqrtIn(n, lo, hi) ==
    IF lo >= hi THEN lo
    ELSE LET mid == (lo + hi + 1) \div 2
         IN IF mid * mid <= n THEN IsqrtIn(n, mid, hi) ELSE IsqrtIn(n, lo, mid - 1)

\* cosine_similarity in thousandths: floor(1000 * dot / sqrt(sq_a * sq_b))
cosine_similarity(vec_a, vec_b) ==
    LET common == DOMAIN vec_a \cap DOMAIN vec_b
        dot == DotProduct(vec_a, vec_b, common)
        sq_a == DotProduct(vec_a, vec_a, DOMAIN vec_a)
        sq_b == DotProduct(vec_b, vec_b, DOMAIN vec_b)
    IN IF DOMAIN vec_a = {} \/ DOMAIN vec_b = {} \/ common = {} \/ dot = 0 THEN 0
       ELSE IsqrtIn((1000000 * dot * dot) \div (sq_a * sq_b), 0, 1000)

(***************************************************************************)
(* app/resolver.py: constants and the box allocator                        *)
(***************************************************************************)
\* the keys of BOX_ID_MAP in insertion order (list(BOX_ID_MAP.keys()))
BoxSizes == <<<<"1",".","5">>, <<"3",".","0">>, <<"4",".","5">>, <<"6",".","0">>>>

BOX_ID_MAP ==
    (<<"1",".","5">> :> <<"c","a","r","t","o","n","_","b","o","x","_","s","m","a","l","l","_","1","_","5">>)
    @@ (<<"3",".","0">> :> <<"c","a","r","t","o","n","_","b","o","x","_","m","e","d","i","u","m","_","3","_","0">>)
    @@ (<<"4",".","5">> :> <<"c","a","r","t","o","n","_","b","o","x","_","l","a","r","g","e","_","4","_","5">>)
    @@ (<<"6",".","0">> :> <<"c","a","r","t","o","n","_","b","o","x","_","x","l","_","6","_","0">>)

\* str.split(sep): the pieces between separators, empty pieces kept
RECURSIVE SplitOn(_, _, _, _, _)
SplitOn(s, sep, i, acc, cur) ==
    IF i > Len(s) THEN Append(acc, cur)
    ELSE IF s[i] = sep THEN SplitOn(s, sep, i + 1, Append(acc, cur), <<>>)
    ELSE SplitOn(s, sep, i + 1, acc, Append(cur, s[i]))

\* str.strip
RECURSIVE Strip(_)
Strip(s) ==
    IF s = <<>> THEN s
    ELSE IF Head(s) = " " THEN Strip(Tail(s))
    ELSE IF s[Len(s)] = " " THEN Strip(SubSeq(s, 1, Len(s) - 1))
    ELSE s

DigitValue(c) == (CHOOSE k \in 1..10 : <<"0","1","2","3","4","5","6","7","8","9">>[k] = c) - 1

RECURSIVE DecimalValue(_)
DecimalValue(ds) ==
    IF ds = <<>> THEN 0
    ELSE 10 * DecimalValue(SubSeq(ds, 1, Len(ds) - 1)) + DigitValue(ds[Len(ds)])

\* float(c) in percent, ValueError mapped to 0.  The model's policies write
\* whole percentages: a chunk is a digit string with an optional sign, or
\* invalid.
StrippedPercent(c) ==
    LET signed == c # <<>> /\ c[1] \in {"+", "-"}
        digits == IF signed THEN Tail(c) ELSE c
    IN IF digits # <<>> /\ \A i \in 1..Len(digits) : digits[i] \in DigitChars
       THEN (IF signed /\ c[1] = "-" THEN -DecimalValue(digits) ELSE DecimalValue(digits))
       ELSE 0

PercentOf(chunk) == StrippedPercent(Strip(chunk))

Percents(chunks) == [i \in 1..Len(chunks) |-> PercentOf(chunks[i])]

\* while len(ratios) < 4: ratios.append(0.0); return ratios[:4]
FourRatios(ratios) == SubSeq(ratios \o [i \in 1..Max(0, 4 - Len(ratios)) |-> 0], 1, 4)

\* the four ratios, in percent (the code divides each by 100.0)
_parse_box_policy(policy) == FourRatios(Percents(SplitOn(policy, "/", 1, <<>>, <<>>)))

\* a ranking that puts the smaller index first among equal remainders
RemainderRankAscending(fracs, idx) ==
    1 + Cardinality({j \in 1..Len(fracs) :
            \/ fracs[j] > fracs[idx]
            \/ fracs[j] = fracs[idx] /\ j < idx})

\* position of idx in sorted(..., key=(remainder, idx), reverse=True): the
\* number of entries that sort before it, plus one
RemainderRank(fracs, idx) ==
    1 + Cardinality({j \in 1..Len(fracs) :
            \/ fracs[j] > fracs[idx]
            \/ fracs[j] = fracs[idx] /\ j > idx})

\* the floors with the remainder handed out: one unit per entry until
\* remainder reaches 0, so the entries ranked 1..remainder (at most all
\* four) gain one unit
HandOut(floors, fracs, remainder) ==
    [size \in Range(BoxSizes) |->
        LET idx == CHOOSE k \in 1..Len(BoxSizes) : BoxSizes[k] = size
        IN floors[idx] + (IF RemainderRank(fracs, idx) <= remainder THEN 1 ELSE 0)]

\* targets are total * pct / 100: the floor is (total * pct) \div 100 and the
\* fractional remainder, in hundredths, (total * pct) % 100
FloorsOf(total, ratios) == [idx \in 1..Len(BoxSizes) |-> (total * ratios[idx]) \div 100]

FracsOf(total, ratios) == [idx \in 1..Len(BoxSizes) |-> (total * ratios[idx]) % 100]

\* an allocation that keeps the floors and hands out no remainder
AllocateFloorsOnly(total, floors, fracs) == HandOut(floors, fracs, 0)

AllocateFloors(total, floors, fracs) == HandOut(floors, fracs, total - SumSeq(floors))

AllocateRatios(total, ratios) ==
    AllocateFloors(total, FloorsOf(total, ratios), FracsOf(total, ratios))

allocate_boxes(total, policy) ==
    IF total <= 0 THEN [size \in Range(BoxSizes) |-> 0]
    ELSE AllocateRatios(total, _parse_box_policy(policy))

\* sum(result.values())
BoxTotal(allocation) ==
    SumSeq([idx \in 1..Len(BoxSizes) |-> allocation[BoxSizes[idx]]])

(***************************************************************************)
(* Exact rationals [n, d] in lowest terms, d > 0: the hours and the        *)
(* amounts of app/pricing.py, which the code holds in floats.              *)
(***************************************************************************)
RECURSIVE GCD(_, _)
GCD(a, b) == IF b = 0 THEN a ELSE GCD(b, a % b)

Rat(n, d) == LET g == GCD(Abs(n), d) IN [n |-> n \div g, d |-> d \div g]
RInt(k) == [n |-> k, d |-> 1]
RAdd(a, b) == Rat(a.n * b.d + b.n * a.d, a.d * b.d)
RMul(a, b) == LET x == Rat(a.n, b.d) y == Rat(b.n, a.d) IN Rat(x.n * y.n, x.d * y.d)
\* a < b, comparing the integer parts first so that no product overflows
RLess(a, b) ==
    LET fa == a.n \div a.d
        fb == b.n \div b.d
    IN \/ fa < fb
       \/ fa = fb /\ (a.n % a.d) * b.d < (b.n % b.d) * a.d
RMax(a, b) == IF RLess(a, b) THEN b ELSE a

(***************************************************************************)
(* app/rules.py                                                            *)
(***************************************************************************)
\* dict.get(key) or default: a missing key and a falsy value (0, False, "")
\* give the default
GetInt(d, key, default) ==
    IF key \in DOMAIN d THEN (IF d[key] = 0 THEN default ELSE d[key]) ELSE default
GetBool(d, key) == IF key \in DOMAIN d THEN d[key] ELSE FALSE
GetStr(d, key) == IF key \in DOMAIN d THEN d[key] ELSE <<>>

\* the five access rules; the rates of movement come from moving_rules.json
AccessRules ==
    ("1A" :> [code |-> "1A", lbs_per_mover_hour |-> 400])
    @@ ("1B" :> [code |-> "1B", lbs_per_mover_hour |-> 300])
    @@ ("1C" :> [code |-> "1C", lbs_per_mover_hour |-> 500])
    @@ ("1D" :> [code |-> "1D", lbs_per_mover_hour |-> 450])
    @@ ("1E" :> [code |-> "1E", lbs_per_mover_hour |-> 600])

\* rate cards per move type and day bucket, from moving_rules.json
RateCards ==
    [localMoves |->
        [ratesMondayToThursday |-> [mover_rate_per_hour |-> 40, truck_rate_per_hour |-> 30],
         ratesFridayToSaturday |-> [mover_rate_per_hour |-> 50, truck_rate_per_hour |-> 35]],
     intrastateMoves |->
        [ratesMondayToThursday |-> [mover_rate_per_hour |-> 45, truck_rate_per_hour |-> 32],
         ratesFridayToSaturday |-> [mover_rate_per_hour |-> 55, truck_rate_per_hour |-> 38]]]

\* a rule file whose trucks are free of charge: every truck count of a mover
\* count then costs the same
FlatTruckRateCards ==
    [localMoves |->
        [ratesMondayToThursday |-> [mover_rate_per_hour |-> 40, truck_rate_per_hour |-> 0],
         ratesFridayToSaturday |-> [mover_rate_per_hour |-> 50, truck_rate_per_hour |-> 0]],
     intrastateMoves |->
        [ratesMondayToThursday |-> [mover_rate_per_hour |-> 45, truck_rate_per_hour |-> 0],
         ratesFridayToSaturday |-> [mover_rate_per_hour |-> 55, truck_rate_per_hour |-> 0]]]

\* MovingRules as load_rules builds it
load_rules(rate_cards) ==
    [access_rules |-> AccessRules,
     truck_capacity_lbs |-> 8000,
     baseline_mover_threshold_lbs |-> 4000,
     additional_mover_step_lbs |-> 2500,
     min_movers |-> 2,
     max_movers |-> 6,
     max_trucks |-> 3,
     travel_charge_hours |-> RInt(1),
     min_billable_hours |-> RInt(3),
     local_extra_minutes_under_30_miles |-> 20,
     stairs_minutes_per_flight |-> 6,
     long_carry_minutes_per_50ft |-> 5,
     elevator_minutes |-> 10,
     mileage_rate |-> Rat(225, 100),
     base_fee |-> RInt(45),
     nte_buffer_percent |-> Rat(15, 100),
     rate_cards |-> rate_cards]

\* a second MovingRules value (the dataclass takes any): a one-mover minimum,
\* a narrower grid and a shorter minimum charge
SmallCrewRules ==
    [load_rules(RateCards) EXCEPT
        !.min_movers = 1, !.max_movers = 3, !.max_trucks = 2,
        !.min_billable_hours = RInt(2)]

RuleSets == {load_rules(RateCards), load_rules(FlatTruckRateCards), SmallCrewRules}

\* an access table that takes no notice of elevators
AccessWithoutElevators(r, location) ==
    LET location_type == Lower(GetStr(location, "location_type"))
    IN IF location_type \in {<<"d","o","c","k">>} THEN r.access_rules["1E"]
       ELSE IF location_type \in {<<"s","t","o","r","a","g","e">>} THEN r.access_rules["1D"]
       ELSE IF location_type \in {<<"h","o","u","s","e">>, <<"t","o","w","n","h","o","u","s","e">>}
            THEN IF GetInt(location, "stairs_flights", 0) > 0
                 THEN r.access_rules["1A"] ELSE r.access_rules["1C"]
       ELSE IF location_type \in {<<"a","p","a","r","t","m","e","n","t">>, <<"c","o","n","d","o">>}
            THEN IF GetInt(location, "floor", 1) > 1 THEN r.access_rules["1B"]
                 ELSE r.access_rules["1C"]
       ELSE r.access_rules["1C"]

access_for_location(r, location) ==
    LET location_type == Lower(GetStr(location, "location_type"))
        floor == GetInt(location, "floor", 1)
        stairs == GetInt(location, "stairs_flights", 0)
        elevator == GetBool(location, "elevator")
    IN IF location_type \in {<<"d","o","c","k">>} THEN r.access_rules["1E"]
       ELSE IF location_type \in {<<"s","t","o","r","a","g","e">>} THEN r.access_rules["1D"]
       ELSE IF location_type \in {<<"h","o","u","s","e">>, <<"t","o","w","n","h","o","u","s","e">>}
            THEN IF stairs > 0 THEN r.access_rules["1A"] ELSE r.access_rules["1C"]
       ELSE IF location_type \in {<<"a","p","a","r","t","m","e","n","t">>, <<"c","o","n","d","o">>}
            THEN IF floor > 1 /\ ~elevator THEN r.access_rules["1B"]
                 ELSE IF floor > 1 /\ elevator THEN r.access_rules["1A"]
                 ELSE r.access_rules["1C"]
       ELSE r.access_rules["1C"]

\* weekday: date.weekday(), Monday 0 .. Sunday 6
rate_card_for(r, weekday, is_local) ==
    LET weekend == weekday >= 5
        move_type == IF is_local THEN "localMoves" ELSE "intrastateMoves"
        rate_group == IF weekend THEN "ratesFridayToSaturday" ELSE "ratesMondayToThursday"
    IN r.rate_cards[move_type][rate_group]

(***************************************************************************)
(* app/pricing.py                                                          *)
(***************************************************************************)
\* QuoteContext.total_weight: sum of weight_lbs * quantity over allocations
total_weight(ctx) ==
    SumSeq([i \in 1..Len(ctx.allocations) |->
                ctx.allocations[i].weight_lbs * ctx.allocations[i].quantity])

compute_productivity_hours(weight, movers, origin, destination) ==
    IF movers <= 0 THEN RInt(0)
    ELSE RAdd(Rat(weight, movers * origin.access_rule.lbs_per_mover_hour),
              Rat(weight, movers * destination.access_rule.lbs_per_mover_hour))

compute_site_adjustments_minutes(location, r) ==
    LET stairs == Max(GetInt(location, "stairs_flights", 0), 0)
        long_carry == Max(GetInt(location, "long_carry_feet", 0), 0)
    IN stairs * r.stairs_minutes_per_flight
       + (IF long_carry > 0 /\ r.long_carry_minutes_per_50ft # 0
          THEN CeilDiv(long_carry, 50) * r.long_carry_minutes_per_50ft ELSE 0)
       + (IF GetBool(location, "elevator") THEN r.elevator_minutes ELSE 0)

\* (total_cost, total_hours) over the requested cartons, in dict order.  The
\* service tier is written in the case the code folds it to: "none" for
\* service.lower(), "CP" for service.upper().
RECURSIVE PackingFrom(_, _, _, _, _)
PackingFrom(ctx, pc, mover_hourly_rate, i, acc) ==
    IF i > Len(ctx.packing_request.cartons) THEN acc
    ELSE LET code == ctx.packing_request.cartons[i].code
             quantity == ctx.packing_request.cartons[i].quantity
             cp_service == ctx.packing_request.service = "CP"
         IN IF quantity <= 0 \/ code \notin DOMAIN pc
            THEN PackingFrom(ctx, pc, mover_hourly_rate, i + 1, acc)
            ELSE LET sku == pc[code]
                     box_cost == sku.box_rate * quantity
                     labor_cost == IF cp_service THEN sku.labor_rate * quantity ELSE 0
                 IN PackingFrom(ctx, pc, mover_hourly_rate, i + 1,
                        [cost |-> acc.cost + box_cost + labor_cost,
                         hours |-> IF cp_service /\ mover_hourly_rate # 0
                                   THEN RAdd(acc.hours, Rat(labor_cost, mover_hourly_rate))
                                   ELSE acc.hours])

compute_packing(ctx, pc, mover_hourly_rate) ==
    IF ctx.packing_request.service = "none"
    THEN [cost |-> 0, hours |-> RInt(0)]
    ELSE PackingFrom(ctx, pc, mover_hourly_rate, 1, [cost |-> 0, hours |-> RInt(0)])

protective_materials_charge(weight) ==
    IF weight <= 0 THEN 0 ELSE CeilDiv(weight, 1000) * 5

\* a variant that charges the hours worked, however few
HoursWithoutMinimum(r, total_hours) == total_hours

\* line 147: max(ctx.rules.min_billable_hours, total_hours)
BillableHours(r, total_hours) == RMax(r.min_billable_hours, total_hours)

evaluate_candidate(movers, trucks, ctx, r, pc) ==
    LET weight == total_weight(ctx)
        work_hours == compute_productivity_hours(weight, movers, ctx.origin, ctx.destination)
        travel_hours ==
            IF ctx.distance_miles < 30
            THEN RAdd(r.travel_charge_hours, Rat(r.local_extra_minutes_under_30_miles, 60))
            ELSE RAdd(r.travel_charge_hours, RMax(Rat(ctx.distance_miles, 30), Rat(1, 2)))
        rate_card == rate_card_for(r, ctx.weekday, ctx.distance_miles < 30)
        mover_rate == rate_card.mover_rate_per_hour
        truck_rate == rate_card.truck_rate_per_hour
        adjustment_minutes ==
            compute_site_adjustments_minutes(ctx.origin.raw, r)
            + compute_site_adjustments_minutes(ctx.destination.raw, r)
        packing == compute_packing(ctx, pc, mover_rate)
        total_hours ==
            RAdd(RAdd(work_hours, travel_hours),
                 RAdd(Rat(adjustment_minutes, 60), packing.hours))
        billable_hours == BillableHours(r, total_hours)
        labor_hourly == mover_rate * movers + truck_rate * trucks
        labor_cost == RMul(RInt(labor_hourly), billable_hours)
        mileage_cost == RMul(RInt(ctx.distance_miles), r.mileage_rate)
        protective_charge == protective_materials_charge(weight)
        subtotal ==
            RAdd(RAdd(labor_cost, mileage_cost),
                 RInt(packing.cost + protective_charge))
        with_fee == RAdd(subtotal, r.base_fee)
        total_price ==
            IF ctx.options.not_to_exceed
            THEN RMul(with_fee, RAdd(RInt(1), r.nte_buffer_percent))
            ELSE with_fee
    IN [movers |-> movers,
        trucks |-> trucks,
        billable_hours |-> billable_hours,
        labor_cost |-> labor_cost,
        mileage_cost |-> mileage_cost,
        packing_cost |-> packing.cost,
        travel_hours |-> travel_hours,
        protective_materials |-> protective_charge,
        total_price |-> total_price,
        work_hours |-> work_hours,
        packing_time_hours |-> packing.hours,
        adjustment_minutes |-> adjustment_minutes,
        labor_hourly |-> labor_hourly]

\* a variant that starts every search from the configured minimum
MinMoversIgnoringWeight(r, weight) == r.min_movers

\* min_movers after line 193: the mover count the search starts from
MinMoversForWeight(r, weight) ==
    LET min_for_weight ==
            r.min_movers
            + (IF weight > r.baseline_mover_threshold_lbs
               THEN CeilDiv(weight - r.baseline_mover_threshold_lbs,
                            r.additional_mover_step_lbs)
               ELSE 0)
    IN Max(r.min_movers, min_for_weight)

MinTrucks(r, weight) == Max(1, CeilDiv(weight, r.truck_capacity_lbs))

\* the (movers, trucks) pairs in the order the nested loops visit them
CandidateGrid(r, weight) ==
    LET lo_m == MinMoversForWeight(r, weight)
        hi_m == r.max_movers
        lo_t == MinTrucks(r, weight)
        hi_t == Max(r.max_trucks, lo_t)
        n_m == Max(0, hi_m - lo_m + 1)
        n_t == Max(0, hi_t - lo_t + 1)
    IN [k \in 1..(n_m * n_t) |->
            [movers |-> lo_m + ((k - 1) \div n_t), trucks |-> lo_t + ((k - 1) % n_t)]]

\* a variant of the loop body that compares with <=: the last of the
\* cheapest quotes wins
RECURSIVE BestFromLastWins(_, _, _)
BestFromLastWins(quotes, i, best) ==
    IF i > Len(quotes) THEN best
    ELSE BestFromLastWins(quotes, i + 1,
            IF RLess(best.total_price, quotes[i].total_price) THEN best ELSE quotes[i])

\* a variant of the loop body that keeps the dearer quote
RECURSIVE BestFromDearest(_, _, _)
BestFromDearest(quotes, i, best) ==
    IF i > Len(quotes) THEN best
    ELSE BestFromDearest(quotes, i + 1,
            IF RLess(best.total_price, quotes[i].total_price) THEN quotes[i] ELSE best)

\* the loop body: keep the first quote, replace it only by a strictly
\* cheaper one
RECURSIVE BestFrom(_, _, _)
BestFrom(quotes, i, best) ==
    IF i > Len(quotes) THEN best
    ELSE BestFrom(quotes, i + 1,
            IF RLess(quotes[i].total_price, best.total_price) THEN quotes[i] ELSE best)

optimize(ctx, r, pc) ==
    LET grid == CandidateGrid(r, total_weight(ctx))
        quotes == [k \in 1..Len(grid) |->
                        evaluate_candidate(grid[k].movers, grid[k].trucks, ctx, r, pc)]
    IN IF Len(grid) = 0
       THEN [status |-> "ValueError", candidate_count |-> 0]
       ELSE [status |-> "ok",
             best |-> BestFrom(quotes, 2, quotes[1]),
             candidate_count |-> Len(grid)]

(***************************************************************************)
(* app/catalog.py.  A dict is modelled as the sequence of its entries in   *)
(* insertion order, the order Python iterates it in: assigning to a key    *)
(* that is present replaces the entry where it stands.                     *)
(***************************************************************************)
\* the characters of the model's strings in code-point order, for str < str
CodePoints == <<" ","(",")","-",".","/","0","1","2","3","4","5","6","7","8","9","A","B","C","D","E","F","G","H","I","J","K","L","M","N","O","P","Q","R","S","T","U","V","W","X","Y","Z","_","a","b","c","d","e","f","g","h","i","j","k","l","m","n","o","p","q","r","s","t","u","v","w","x","y","z","è","é","ü">>

CodePoint(c) == CHOOSE k \in 1..Len(CodePoints) : CodePoints[k] = c

\* a < b for strings: the first differing character decides, a proper
\* prefix comes first
StrLess(a, b) ==
    LET differ == {i \in 1..Min(Len(a), Len(b)) : a[i] # b[i]}
        first == CHOOSE i \in differ : \A j \in differ : i <= j
    IN IF differ = {} THEN Len(a) < Len(b)
       ELSE CodePoint(a[first]) < CodePoint(b[first])

\* list.sort / sorted under the strict order Less, stable: an element goes
\* after the elements that sort before it and after the equal ones that
\* stand before it
SortBy(s, Less(_, _)) ==
    LET Rank(i) ==
            1 + Cardinality({j \in 1..Len(s) :
                    \/ Less(s[j], s[i])
                    \/ ~Less(s[i], s[j]) /\ j < i})
    IN [k \in 1..Len(s) |-> s[CHOOSE i \in 1..Len(s) : Rank(i) = k]]

\* Catalog._MANUAL_OVERRIDES (volume_cuft, which no modelled operation
\* reads, is left out)
_MANUAL_OVERRIDES ==
    <<[id |-> <<"r","e","f","r","i","g","e","r","a","t","o","r","_","s","t","a","n","d","a","r","d">>, name |-> <<"R","e","f","r","i","g","e","r","a","t","o","r">>, category |-> "appliance",
       weight_lbs |-> 250, aliases |-> <<<<"r","e","f","r","i","g","e","r","a","t","o","r">>, <<"f","r","i","d","g","e">>, <<"r","e","f","r","i","g","e","r","a","t","o","r"," ","s","t","a","n","d","a","r","d">>>>],
      [id |-> <<"s","o","f","a","_","t","h","r","e","e","_","s","e","a","t">>, name |-> <<"S","o","f","a">>, category |-> "sofa",
       weight_lbs |-> 210, aliases |-> <<<<"s","o","f","a">>, <<"c","o","u","c","h">>, <<"s","o","f","a"," ","c","o","u","c","h">>>>],
      [id |-> <<"w","a","r","d","r","o","b","e","_","l","a","r","g","e">>, name |-> <<"W","a","r","d","r","o","b","e">>, category |-> "wardrobe",
       weight_lbs |-> 240, aliases |-> <<<<"w","a","r","d","r","o","b","e">>, <<"a","r","m","o","i","r","e">>, <<"a","r","m","o","i","r","e"," ","w","a","r","d","r","o","b","e">>>>],
      [id |-> <<"s","a","f","e","_","l","a","r","g","e">>, name |-> <<"S","a","f","e">>, category |-> "safe",
       weight_lbs |-> 320, aliases |-> <<<<"s","a","f","e">>, <<"g","u","n"," ","s","a","f","e">>, <<"f","l","o","o","r"," ","s","a","f","e">>>>],
      [id |-> <<"d","r","e","s","s","e","r","_","s","t","a","n","d","a","r","d">>, name |-> <<"D","r","e","s","s","e","r">>, category |-> "dresser",
       weight_lbs |-> 150, aliases |-> <<<<"d","r","e","s","s","e","r">>, <<"b","u","r","e","a","u">>>>],
      [id |-> <<"d","r","e","s","s","e","r","_","t","a","l","l">>, name |-> <<"D","r","e","s","s","e","r"," ","T","a","l","l">>, category |-> "dresser",
       weight_lbs |-> 165, aliases |-> <<<<"t","a","l","l"," ","d","r","e","s","s","e","r">>, <<"h","i","g","h","b","o","y">>, <<"c","h","e","s","t"," ","o","f"," ","d","r","a","w","e","r","s">>>>],
      [id |-> <<"d","r","e","s","s","e","r","_","d","o","u","b","l","e">>, name |-> <<"D","r","e","s","s","e","r"," ","D","o","u","b","l","e">>, category |-> "dresser",
       weight_lbs |-> 190, aliases |-> <<<<"d","o","u","b","l","e"," ","d","r","e","s","s","e","r">>, <<"l","o","w","b","o","y"," ","d","r","e","s","s","e","r">>>>],
      [id |-> <<"r","u","g","_","l","a","r","g","e">>, name |-> <<"R","u","g"," ","L","a","r","g","e">>, category |-> "rug",
       weight_lbs |-> 50, aliases |-> <<<<"l","a","r","g","e"," ","r","u","g">>, <<"r","u","g"," ","l","a","r","g","e">>>>],
      [id |-> <<"c","a","r","t","o","n","_","b","o","x","_","s","m","a","l","l","_","1","_","5">>, name |-> <<"B","o","x"," ","S","m","a","l","l"," ","1",".","5"," ","c","u"," ","f","t">>, category |-> "carton",
       weight_lbs |-> 35, aliases |-> <<<<"1",".","5"," ","b","o","x">>, <<"s","m","a","l","l"," ","b","o","x">>, <<"b","o","x"," ","1",".","5">>, <<"1",".","5"," ","c","u"," ","f","t"," ","b","o","x">>>>],
      [id |-> <<"c","a","r","t","o","n","_","b","o","x","_","m","e","d","i","u","m","_","3","_","0">>, name |-> <<"B","o","x"," ","M","e","d","i","u","m"," ","3",".","0"," ","c","u"," ","f","t">>, category |-> "carton",
       weight_lbs |-> 50, aliases |-> <<<<"3",".","0"," ","b","o","x">>, <<"m","e","d","i","u","m"," ","b","o","x">>, <<"b","o","x"," ","3",".","0">>, <<"3",".","0"," ","c","u"," ","f","t"," ","b","o","x">>>>],
      [id |-> <<"c","a","r","t","o","n","_","b","o","x","_","l","a","r","g","e","_","4","_","5">>, name |-> <<"B","o","x"," ","L","a","r","g","e"," ","4",".","5"," ","c","u"," ","f","t">>, category |-> "carton",
       weight_lbs |-> 65, aliases |-> <<<<"4",".","5"," ","b","o","x">>, <<"l","a","r","g","e"," ","b","o","x">>, <<"b","o","x"," ","4",".","5">>, <<"4",".","5"," ","c","u"," ","f","t"," ","b","o","x">>>>],
      [id |-> <<"c","a","r","t","o","n","_","b","o","x","_","x","l","_","6","_","0">>, name |-> <<"B","o","x"," ","X","L"," ","6",".","0"," ","c","u"," ","f","t">>, category |-> "carton",
       weight_lbs |-> 80, aliases |-> <<<<"6",".","0"," ","b","o","x">>, <<"x","l"," ","b","o","x">>, <<"e","x","t","r","a"," ","l","a","r","g","e"," ","b","o","x">>, <<"b","o","x"," ","6",".","0">>>>]>>

\* Catalog._MANUAL_ALIASES, in dict order
_MANUAL_ALIASES ==
    <<<<<<"d","i","n","i","n","g"," ","t","a","b","l","e">>, <<"d","i","n","i","n","g","_","t","a","b","l","e","_","m","e","d","i","u","m">>>>,
      <<<<"t","a","b","l","e"," ","d","i","n","i","n","g">>, <<"d","i","n","i","n","g","_","t","a","b","l","e","_","m","e","d","i","u","m">>>>,
      <<<<"d","i","n","i","n","g"," ","t","a","b","l","e"," ","m","e","d","i","u","m">>, <<"d","i","n","i","n","g","_","t","a","b","l","e","_","m","e","d","i","u","m">>>>,
      <<<<"r","e","f","r","i","g","e","r","a","t","o","r">>, <<"r","e","f","r","i","g","e","r","a","t","o","r","_","s","t","a","n","d","a","r","d">>>>,
      <<<<"f","r","i","d","g","e">>, <<"r","e","f","r","i","g","e","r","a","t","o","r","_","s","t","a","n","d","a","r","d">>>>,
      <<<<"c","o","u","c","h">>, <<"s","o","f","a","_","t","h","r","e","e","_","s","e","a","t">>>>,
      <<<<"s","o","f","a">>, <<"s","o","f","a","_","t","h","r","e","e","_","s","e","a","t">>>>,
      <<<<"w","a","r","d","r","o","b","e">>, <<"w","a","r","d","r","o","b","e","_","l","a","r","g","e">>>>,
      <<<<"s","a","f","e">>, <<"s","a","f","e","_","l","a","r","g","e">>>>,
      <<<<"b","u","r","e","a","u">>, <<"d","r","e","s","s","e","r","_","s","t","a","n","d","a","r","d">>>>,
      <<<<"d","r","e","s","s","e","r">>, <<"d","r","e","s","s","e","r","_","s","t","a","n","d","a","r","d">>>>>>

\* position of the entry with this key, 0 when there is none (dict.get
\* returning None)
IndexOf(entries, Key(_), key) ==
    IF \E i \in 1..Len(entries) : Key(entries[i]) = key
    THEN CHOOSE i \in 1..Len(entries) : Key(entries[i]) = key
    ELSE 0

\* d[key] = entry
Put(entries, Key(_), entry) ==
    LET at == IndexOf(entries, Key, Key(entry))
    IN IF at = 0 THEN Append(entries, entry) ELSE [entries EXCEPT ![at] = entry]

IdOf(item) == item.id
NormalizedOf(record) == record.normalized

\* a registration that also replaces an entry of its own priority
RegisterOverEqualPriority(alias_records, record, at) ==
    IF record.normalized = <<>> THEN alias_records
    ELSE IF at # 0 /\ alias_records[at].priority < record.priority THEN alias_records
    ELSE Put(alias_records, NormalizedOf, record)

\* existing = self._alias_records.get(normalized), at its position: the
\* record is dropped when it has no normalized form or an entry of at most
\* its priority stands
RegisterRecord(alias_records, record, at) ==
    IF record.normalized = <<>> THEN alias_records
    ELSE IF at # 0 /\ alias_records[at].priority <= record.priority THEN alias_records
    ELSE Put(alias_records, NormalizedOf, record)

\* AliasRecord without its tokens and vector, which are
\* generate_tokens(normalized) and trigram_vector(normalized)
RegisterNormalized(alias_records, alias, item, priority, normalized) ==
    RegisterRecord(alias_records,
                   [item_id |-> item.id, alias |-> alias, normalized |-> normalized,
                    priority |-> priority],
                   IndexOf(alias_records, NormalizedOf, normalized))

_register_alias(alias_records, alias, item, priority) ==
    RegisterNormalized(alias_records, alias, item, priority, normalize_label(alias))

\* the variants of a name split into parts
VariantsOf(parts) ==
    IF parts = <<>> THEN <<>>
    ELSE (IF Len(parts) = 2 THEN <<parts[2] \o <<" ">> \o parts[1]>> ELSE <<>>)
         \o <<Join(parts, <<"_">>), Join(parts, <<"-">>)>>

_basic_alias_variants(name) == VariantsOf(tokenize(normalize_label(name)))

\* The loops below carry the dicts built so far from one iteration to the
\* next.  The length tests in their guards are never true: they make TLC
\* evaluate the dicts of an iteration before it starts the next one.
RECURSIVE RegisterAll(_, _, _, _)
RegisterAll(alias_records, aliases, item, priority) ==
    IF aliases = <<>> \/ Len(alias_records) < 0 THEN alias_records
    ELSE RegisterAll(_register_alias(alias_records, Head(aliases), item, priority),
                     Tail(aliases), item, priority)

\* one iteration of the loop over raw_items: the item stored, then its name,
\* its aliases and the variants of its name registered
LoadItem(acc, item) ==
    [items |-> Put(acc.items, IdOf, item),
     alias_records |->
        RegisterAll(
            RegisterAll(_register_alias(acc.alias_records, item.name, item, 0),
                        item.aliases, item, 1),
            _basic_alias_variants(item.name), item, 2)]

\* the loop over raw_items: self.items and self._alias_records after it
RECURSIVE LoadRawItems(_, _)
LoadRawItems(raw_items, acc) ==
    IF raw_items = <<>> \/ Len(acc.alias_records) < 0 THEN acc
    ELSE LoadRawItems(Tail(raw_items), LoadItem(acc, Head(raw_items)))

\* one iteration of the loop over _MANUAL_ALIASES, the target at position
\* at of the items (0: self.items.get(target_id) is None)
LoadManualAlias(acc, alias, at) ==
    IF at = 0 THEN acc
    ELSE [acc EXCEPT !.alias_records =
            _register_alias(acc.alias_records, alias, acc.items[at], 0)]

\* the loop over _MANUAL_ALIASES
RECURSIVE LoadManualAliases(_, _)
LoadManualAliases(manual, acc) ==
    IF manual = <<>> \/ Len(acc.alias_records) < 0 THEN acc
    ELSE LoadManualAliases(Tail(manual),
            LoadManualAlias(acc, Head(manual)[1], IndexOf(acc.items, IdOf, Head(manual)[2])))

_load_items(raw_items) ==
    LoadManualAliases(_MANUAL_ALIASES,
        LoadRawItems(raw_items, [items |-> <<>>, alias_records |-> <<>>]))

\* (weight, id) order of _compute_category_medoids
ByWeightThenId(a, b) ==
    \/ a.weight_lbs < b.weight_lbs
    \/ a.weight_lbs = b.weight_lbs /\ StrLess(a.id, b.id)

\* categories in order of first appearance (the keys of by_category)
CategoriesOf(items) ==
    LET firsts == {i \in 1..Len(items) :
                      \A j \in 1..(i - 1) : items[j].category # items[i].category}
        Nth(k) == CHOOSE i \in firsts : Cardinality({j \in firsts : j < i}) = k - 1
    IN [k \in 1..Cardinality(firsts) |-> items[Nth(k)].category]

\* min(sorted_items, key=(abs(weight - target_weight), id)), as an id
ClosestTo(sorted_items, target_weight) ==
    LET Closer(a, b) ==
            \/ Abs(a.weight_lbs - target_weight) < Abs(b.weight_lbs - target_weight)
            \/ /\ Abs(a.weight_lbs - target_weight) = Abs(b.weight_lbs - target_weight)
               /\ StrLess(a.id, b.id)
    IN SortBy(sorted_items, Closer)[1].id

\* the item closest to the weight at median_index
MedoidOfSorted(sorted_items) ==
    ClosestTo(sorted_items, sorted_items[(Len(sorted_items) \div 2) + 1].weight_lbs)

MedoidOf(items, category) ==
    MedoidOfSorted(SortBy(SelectSeq(items, LAMBDA itm : itm.category = category),
                          ByWeightThenId))

MedoidsOf(items, categories) ==
    [k \in 1..Len(categories) |->
        [category |-> categories[k], id |-> MedoidOf(items, categories[k])]]

\* the entries (category, medoid id) of category_medoid, in dict order
_compute_category_medoids(items) == MedoidsOf(items, CategoriesOf(items))

\* the catalog of the loaded items and alias records
CatalogOf(loaded) ==
    [items |-> loaded.items,
     alias_records |-> loaded.alias_records,
     category_medoid |-> _compute_category_medoids(loaded.items)]

\* Catalog.__init__: the items of the JSON file, then the manual overrides
Catalog(json_items) == CatalogOf(_load_items(json_items \o _MANUAL_OVERRIDES))

\* Catalog.get: whether the id is known, and the item when it is
HasItem(cat, item_id) == IndexOf(cat.items, IdOf, item_id) # 0
GetItem(cat, item_id) == cat.items[IndexOf(cat.items, IdOf, item_id)]

\* alias_to_id.get(norm) and get_alias_record(norm): both dicts hold the
\* same keys, written together by _register_alias
HasAlias(cat, norm) == IndexOf(cat.alias_records, NormalizedOf, norm) # 0
GetAliasRecord(cat, norm) == cat.alias_records[IndexOf(cat.alias_records, NormalizedOf, norm)]

\* cosine_similarity as the exact fraction it rounds: the score is
\* dot / sqrt(sq_a * sq_b), with dot = 0 where the code returns 0.0; the
\* scores of one call share sq_a, the square of the norm of the label
CosineParts(vec_a, vec_b) ==
    [dot |-> DotProduct(vec_a, vec_b, DOMAIN vec_a \cap DOMAIN vec_b),
     sq_a |-> DotProduct(vec_a, vec_a, DOMAIN vec_a),
     sq_b |-> DotProduct(vec_b, vec_b, DOMAIN vec_b)]

NoScore == [dot |-> 0, sq_a |-> 1, sq_b |-> 1]

\* a comparison that also lets an equal score through
ScoreAtLeast(score, best_score) ==
    score.dot * score.dot * best_score.sq_b >= best_score.dot * best_score.dot * score.sq_b

\* score > best_score, for two scores of one call
ScoreAbove(score, best_score) ==
    score.dot * score.dot * best_score.sq_b > best_score.dot * best_score.dot * score.sq_b

\* best_score >= similarity_threshold, the threshold in thousandths
ReachesThreshold(best_score, similarity_threshold) ==
    1000000 * best_score.dot * best_score.dot
        >= similarity_threshold * similarity_threshold * best_score.sq_a * best_score.sq_b

\* the loop over self._alias_records.values() from position i on: the
\* position of best, 0 for None (best < 0 is never true: the test makes
\* TLC evaluate best before the next iteration)
RECURSIVE BestRecordFrom(_, _, _)
BestRecordFrom(scores, i, best) ==
    IF i > Len(scores) \/ best < 0 THEN best
    ELSE BestRecordFrom(scores, i + 1,
                  IF ScoreAbove(scores[i], IF best = 0 THEN NoScore ELSE scores[best])
                  THEN i ELSE best)

\* Catalog.match returning None
NoMatch == [found |-> FALSE]

\* MatchResult, with the id of its item
MatchResult(item_id, alias, normalized, similarity, approximate) ==
    [found |-> TRUE, item_id |-> item_id, alias |-> alias, normalized |-> normalized,
     similarity |-> similarity, approximate |-> approximate]

\* the end of match: the best record when its score reaches the threshold
MatchBest(cat, vector, scores, best, similarity_threshold) ==
    IF best # 0 /\ ReachesThreshold(scores[best], similarity_threshold)
    THEN MatchResult(cat.alias_records[best].item_id, cat.alias_records[best].alias,
                     cat.alias_records[best].normalized,
                     cosine_similarity(vector, trigram_vector(cat.alias_records[best].normalized)),
                     TRUE)
    ELSE NoMatch

\* the scores of the alias records against the vector of the label
MatchScores(cat, vector) ==
    [i \in 1..Len(cat.alias_records) |->
        CosineParts(vector, trigram_vector(cat.alias_records[i].normalized))]

MatchApproximate(cat, vector, scores, similarity_threshold) ==
    MatchBest(cat, vector, scores, BestRecordFrom(scores, 1, 0), similarity_threshold)

MatchVector(cat, vector, similarity_threshold) ==
    MatchApproximate(cat, vector, Listed(MatchScores(cat, vector)), similarity_threshold)

MatchNormalized(cat, normalized, similarity_threshold) ==
    IF normalized = <<>> THEN NoMatch
    ELSE IF HasAlias(cat, normalized)
         THEN MatchResult(GetAliasRecord(cat, normalized).item_id,
                          GetAliasRecord(cat, normalized).alias, normalized, 1000, FALSE)
    ELSE MatchVector(cat, trigram_vector(normalized), similarity_threshold)

\* Catalog.match(raw, similarity_threshold=...), similarities in thousandths
match(cat, raw, similarity_threshold) ==
    MatchNormalized(cat, normalize_label(raw), similarity_threshold)

CategoryOf(entry) == entry.category
HasMedoid(cat, category) == IndexOf(cat.category_medoid, CategoryOf, category) # 0
MedoidId(cat, category) == cat.category_medoid[IndexOf(cat.category_medoid, CategoryOf, category)].id

\* the items of data/estimation_weights_volumes_categories.json the model
\* loads: beds with their accessories (the queen headboard and box spring
\* are not stocked), pianos, a dining set
JsonItems ==
    <<[id |-> <<"b","e","d","_","k","i","n","g","_","m","a","t","t","r","e","s","s">>, name |-> <<"B","e","d"," ","K","i","n","g"," ","M","a","t","t","r","e","s","s">>, category |-> "bed",
       weight_lbs |-> 130, aliases |-> <<<<"k","i","n","g"," ","m","a","t","t","r","e","s","s">>>>],
      [id |-> <<"b","e","d","_","k","i","n","g","_","h","e","a","d","b","o","a","r","d">>, name |-> <<"B","e","d"," ","K","i","n","g"," ","H","e","a","d","b","o","a","r","d">>, category |-> "bed",
       weight_lbs |-> 60, aliases |-> <<>>],
      [id |-> <<"b","e","d","_","k","i","n","g","_","f","r","a","m","e">>, name |-> <<"B","e","d"," ","K","i","n","g"," ","F","r","a","m","e">>, category |-> "bed",
       weight_lbs |-> 90, aliases |-> <<>>],
      [id |-> <<"b","e","d","_","k","i","n","g","_","b","o","x","_","s","p","r","i","n","g">>, name |-> <<"B","e","d"," ","K","i","n","g"," ","B","o","x"," ","S","p","r","i","n","g">>, category |-> "bed",
       weight_lbs |-> 100, aliases |-> <<>>],
      [id |-> <<"b","e","d","_","q","u","e","e","n","_","m","a","t","t","r","e","s","s">>, name |-> <<"B","e","d"," ","Q","u","e","e","n"," ","M","a","t","t","r","e","s","s">>, category |-> "bed",
       weight_lbs |-> 110, aliases |-> <<>>],
      [id |-> <<"b","e","d","_","q","u","e","e","n","_","f","r","a","m","e">>, name |-> <<"B","e","d"," ","Q","u","e","e","n"," ","F","r","a","m","e">>, category |-> "bed",
       weight_lbs |-> 80, aliases |-> <<>>],
      [id |-> <<"p","i","a","n","o","_","u","p","r","i","g","h","t">>, name |-> <<"P","i","a","n","o"," ","U","p","r","i","g","h","t">>, category |-> "piano",
       weight_lbs |-> 500, aliases |-> <<>>],
      [id |-> <<"p","i","a","n","o","_","g","r","a","n","d">>, name |-> <<"P","i","a","n","o"," ","G","r","a","n","d">>, category |-> "piano",
       weight_lbs |-> 800, aliases |-> <<>>],
      [id |-> <<"b","e","n","c","h","_","p","i","a","n","o">>, name |-> <<"B","e","n","c","h"," ","P","i","a","n","o">>, category |-> "bench",
       weight_lbs |-> 35, aliases |-> <<>>],
      [id |-> <<"d","i","n","i","n","g","_","t","a","b","l","e","_","m","e","d","i","u","m">>, name |-> <<"D","i","n","i","n","g"," ","T","a","b","l","e"," ","M","e","d","i","u","m">>, category |-> "table",
       weight_lbs |-> 150, aliases |-> <<<<"d","i","n","i","n","g"," ","t","a","b","l","e">>>>],
      [id |-> <<"d","i","n","i","n","g","_","c","h","a","i","r">>, name |-> <<"D","i","n","i","n","g"," ","C","h","a","i","r">>, category |-> "chair",
       weight_lbs |-> 20, aliases |-> <<<<"c","h","a","i","r">>>>]>>

\* a JSON file without items leaves the manual overrides alone
FullCatalog == Catalog(JsonItems)
OverridesOnlyCatalog == Catalog(<<>>)
Catalogs == {Catalog(json_items) : json_items \in {JsonItems, <<>>}}

(***************************************************************************)
(* difflib.SequenceMatcher(None, a, b), as app/resolver.py uses it: no     *)
(* junk, and strings too short for the popularity heuristic.               *)
(***************************************************************************)
\* length of the common run of a from i and of b from j, inside a[..ahi]
\* and b[..bhi]
RunLength(a, i, ahi, b, j, bhi) ==
    LET room == Min(ahi - i, bhi - j) + 1
        Same(k) == \A t \in 0..(k - 1) : a[i + t] = b[j + t]
    IN IF room <= 0 THEN 0
       ELSE CHOOSE k \in 0..room : Same(k) /\ (k = room \/ a[i + k] # b[j + k])

\* the run lengths from every pair of starts
RunsOf(a, alo, ahi, b, blo, bhi) ==
    [s \in (alo..ahi) \X (blo..bhi) |-> RunLength(a, s[1], ahi, b, s[2], bhi)]

LongestRun(run) == CHOOSE k \in {run[s] : s \in DOMAIN run} : \A s \in DOMAIN run : run[s] <= k

\* of the starts in longest the one earliest in a, of those the one earliest
\* in b
EarliestOf(longest, size) ==
    LET besti == CHOOSE i \in {s[1] : s \in longest} : \A s \in longest : i <= s[1]
    IN [i |-> besti,
        j |-> CHOOSE j \in {s[2] : s \in {t \in longest : t[1] = besti}} :
                  \A s \in longest : s[1] = besti => j <= s[2],
        size |-> size]

LongestOf(run, size) == EarliestOf({s \in DOMAIN run : run[s] = size}, size)

LongestIn(run) == LongestOf(run, LongestRun(run))

\* find_longest_match on a[alo..ahi] and b[blo..bhi]: the longest block,
\* of those the one starting earliest in a, of those the one starting
\* earliest in b
find_longest_match(a, alo, ahi, b, blo, bhi) == LongestIn(RunsOf(a, alo, ahi, b, blo, bhi))

RECURSIVE MatchedChars(_, _, _, _, _, _)
\* the size of the match m and of the blocks to its left and to its right
AroundMatch(a, alo, ahi, b, blo, bhi, m) ==
    IF m.size = 0 THEN 0
    ELSE m.size
         + MatchedChars(a, alo, m.i - 1, b, blo, m.j - 1)
         + MatchedChars(a, m.i + m.size, ahi, b, m.j + m.size, bhi)

\* sum of the sizes of get_matching_blocks: the longest match, then the
\* same to its left and to its right
MatchedChars(a, alo, ahi, b, blo, bhi) ==
    IF alo > ahi \/ blo > bhi THEN 0
    ELSE AroundMatch(a, alo, ahi, b, blo, bhi, find_longest_match(a, alo, ahi, b, blo, bhi))

\* SequenceMatcher.ratio() in thousandths: 2 * matches / (len(a) + len(b))
SequenceRatio(a, b) ==
    IF Len(a) + Len(b) = 0 THEN 1000
    ELSE (2000 * MatchedChars(a, 1, Len(a), b, 1, Len(b))) \div (Len(a) + Len(b))

(***************************************************************************)
(* app/resolver.py: scoring                                                *)
(***************************************************************************)
TokenSetRatio(left_tokens, right_tokens) ==
    IF left_tokens = {} \/ right_tokens = {} THEN 0
    ELSE IF Cardinality(left_tokens) = 1 /\ Cardinality(right_tokens) = 1
         THEN SequenceRatio(CHOOSE t \in left_tokens : TRUE,
                            CHOOSE t \in right_tokens : TRUE)
    ELSE (2000 * Cardinality(left_tokens \cap right_tokens))
         \div (Cardinality(left_tokens) + Cardinality(right_tokens))

_token_set_ratio(left, right) == TokenSetRatio(Range(tokenize(left)), Range(tokenize(right)))

_partial_ratio(left, right) ==
    IF left = <<>> \/ right = <<>> THEN 0 ELSE SequenceRatio(left, right)

\* (token_ratio + partial_ratio + cosine) / 3.0 against the normalized form
\* of an alias record, whose vector is trigram_vector(normalized)
FuzzyScore(norm, normalized) ==
    (_token_set_ratio(norm, normalized)
     + _partial_ratio(norm, normalized)
     + cosine_similarity(trigram_vector(norm), trigram_vector(normalized))) \div 3

(***************************************************************************)
(* app/resolver.py: tables                                                 *)
(***************************************************************************)
BED_SIZE_ORDER == <<<<"k","i","n","g">>, <<"q","u","e","e","n">>, <<"f","u","l","l">>, <<"t","w","i","n">>>>

BED_SIZE_SYNONYMS ==
    (<<"k","i","n","g">> :> {<<"k","i","n","g">>, <<"c","a","l"," ","k","i","n","g">>, <<"c","a","l","i","f","o","r","n","i","a">>})
    @@ (<<"q","u","e","e","n">> :> {<<"q","u","e","e","n">>})
    @@ (<<"f","u","l","l">> :> {<<"f","u","l","l">>, <<"d","o","u","b","l","e">>})
    @@ (<<"t","w","i","n">> :> {<<"t","w","i","n">>, <<"s","i","n","g","l","e">>})

BED_SIZE_TARGETS ==
    [headboard |->
        (<<"k","i","n","g">> :> <<"b","e","d","_","k","i","n","g","_","h","e","a","d","b","o","a","r","d">>) @@ (<<"q","u","e","e","n">> :> <<"b","e","d","_","q","u","e","e","n","_","h","e","a","d","b","o","a","r","d">>)
        @@ (<<"f","u","l","l">> :> <<"b","e","d","_","f","u","l","l","_","h","e","a","d","b","o","a","r","d">>) @@ (<<"t","w","i","n">> :> <<"b","e","d","_","h","e","a","d","b","o","a","r","d">>),
     frame |->
        (<<"k","i","n","g">> :> <<"b","e","d","_","k","i","n","g","_","f","r","a","m","e">>) @@ (<<"q","u","e","e","n">> :> <<"b","e","d","_","q","u","e","e","n","_","f","r","a","m","e">>)
        @@ (<<"f","u","l","l">> :> <<"b","e","d","_","d","o","u","b","l","e","_","f","u","l","l","_","f","r","a","m","e">>) @@ (<<"t","w","i","n">> :> <<"b","e","d","_","t","w","i","n","_","s","i","n","g","l","e","_","f","r","a","m","e">>),
     box_spring |->
        (<<"k","i","n","g">> :> <<"b","e","d","_","k","i","n","g","_","b","o","x","_","s","p","r","i","n","g">>) @@ (<<"q","u","e","e","n">> :> <<"b","e","d","_","q","u","e","e","n","_","b","o","x","_","s","p","r","i","n","g">>)
        @@ (<<"f","u","l","l">> :> <<"b","e","d","_","d","o","u","b","l","e","_","f","u","l","l","_","b","o","x","_","s","p","r","i","n","g">>)
        @@ (<<"t","w","i","n">> :> <<"b","e","d","_","t","w","i","n","_","s","i","n","g","l","e","_","b","o","x","_","s","p","r","i","n","g">>)]

DRESSER_RULES ==
    (<<"t","a","l","l">> :> <<"d","r","e","s","s","e","r","_","t","a","l","l">>) @@ (<<"h","i","g","h","b","o","y">> :> <<"d","r","e","s","s","e","r","_","t","a","l","l">>)
    @@ (<<"c","h","e","s","t">> :> <<"d","r","e","s","s","e","r","_","t","a","l","l">>) @@ (<<"d","o","u","b","l","e">> :> <<"d","r","e","s","s","e","r","_","d","o","u","b","l","e">>)
    @@ (<<"l","o","w","b","o","y">> :> <<"d","r","e","s","s","e","r","_","d","o","u","b","l","e">>) @@ (<<"w","i","d","e">> :> <<"d","r","e","s","s","e","r","_","d","o","u","b","l","e">>)

CATEGORY_TOKEN_MAP ==
    (<<"d","r","e","s","s","e","r">> :> "dresser") @@ (<<"b","u","r","e","a","u">> :> "dresser") @@ (<<"a","r","m","o","i","r","e">> :> "wardrobe")
    @@ (<<"w","a","r","d","r","o","b","e">> :> "wardrobe") @@ (<<"c","a","b","i","n","e","t">> :> "cabinet") @@ (<<"b","e","n","c","h">> :> "bench")
    @@ (<<"l","a","m","p">> :> "lamp") @@ (<<"s","o","f","a">> :> "sofa") @@ (<<"c","o","u","c","h">> :> "sofa")
    @@ (<<"s","e","c","t","i","o","n","a","l">> :> "sofa") @@ (<<"t","a","b","l","e">> :> "table") @@ (<<"c","h","a","i","r">> :> "chair")
    @@ (<<"s","t","o","o","l">> :> "chair") @@ (<<"p","i","a","n","o">> :> "piano") @@ (<<"r","u","g">> :> "rug")
    @@ (<<"b","e","d">> :> "bed") @@ (<<"m","a","t","t","r","e","s","s">> :> "bed") @@ (<<"t","v">> :> "television")
    @@ (<<"t","e","l","e","v","i","s","i","o","n">> :> "television") @@ (<<"m","i","r","r","o","r">> :> "mirror") @@ (<<"d","e","s","k">> :> "desk")
    @@ (<<"a","p","p","l","i","a","n","c","e">> :> "appliance") @@ (<<"r","e","f","r","i","g","e","r","a","t","o","r">> :> "appliance")
    @@ (<<"f","r","i","d","g","e">> :> "appliance") @@ (<<"f","r","e","e","z","e","r">> :> "appliance") @@ (<<"b","o","x">> :> "carton")
    @@ (<<"c","a","r","t","o","n">> :> "carton")

\* ResolverOptions(): the defaults; confidence_floor in thousandths
DefaultOptions ==
    [resolver_policy |-> "best_match_no_fail",
     box_allocation_policy |-> <<"5","0","/","3","5","/","1","0","/","5">>,
     confidence_floor |-> 650]

RECURSIVE infer_category(_)
infer_category(tokens) ==
    IF tokens = <<>> THEN "misc"
    ELSE IF Head(tokens) \in DOMAIN CATEGORY_TOKEN_MAP THEN CATEGORY_TOKEN_MAP[Head(tokens)]
    ELSE infer_category(Tail(tokens))

(***************************************************************************)
(* The raw labels of the model's requests, and the scores of their         *)
(* normalized forms against every alias, computed once.                    *)
(***************************************************************************)
Labels ==
    <<<<"b","o","x">>, <<"B","o","x","e","s">>, <<"r","u","g","_","l","a","r","g","e">>, <<"S","o","f","a">>, <<"b","e","d","_","k","i","n","g","_","m","a","t","t","r","e","s","s">>, <<"q","u","e","e","n"," ","m","a","t","t","r","e","s","s">>,
      <<"h","e","a","d","b","o","a","r","d">>, <<"b","e","d"," ","f","r","a","m","e">>, <<"b","o","x"," ","s","p","r","i","n","g">>, <<"h","e","a","d","b","o","a","r","d"," ","a","n","d"," ","f","r","a","m","e">>, <<"w","i","d","e"," ","d","r","e","s","s","e","r">>,
      <<"o","l","d"," ","p","i","a","n","o">>, <<"g","r","a","n","d"," ","p","i","a","n","o"," ","b","e","n","c","h">>, <<"d","r","e","s","e","r">>, <<"e","n","i","g","m","a","t","i","c"," ","i","t","e","m">>, <<"-","-">>,
      <<"s","p","i","n","e","t"," ","p","i","a","n","o"," ","b","e","n","c","h">>, <<"t","a","l","l"," ","l","a","m","p">>, <<"g","u","n"," ","s","a","f","e"," ","r","e","f","r","i","g","e","r","a","t","o","r">>, <<"l","a","r","g","e">>, <<"c","o","u","c","h"," ","s","o","f","a">>>>

NormalizedForms(alias_records) ==
    {alias_records[i].normalized : i \in 1..Len(alias_records)}

ScoredPairs ==
    {normalize_label(Labels[i]) : i \in 1..Len(Labels)}
    \X NormalizedForms(FullCatalog.alias_records)

ScoreTable == [p \in ScoredPairs |-> FuzzyScore(p[1], p[2])] @@ <<>>

\* the score of a pair of normalized forms, read from the table when it
\* holds the pair
ScoreOf(table, pair) ==
    IF pair \in DOMAIN table THEN table[pair] ELSE FuzzyScore(pair[1], pair[2])

_candidate_score(norm, record) == ScoreOf(ScoreTable, <<norm, record.normalized>>)

\* tokens of the label found among the unigrams and bigrams of the alias
_candidate_coverage(tokens, record) ==
    LET alias_tokens == Range(generate_tokens(record.normalized))
    IN Cardinality({i \in 1..Len(tokens) : tokens[i] \in alias_tokens})

(***************************************************************************)
(* app/resolver.py: strategies.  A ResolvedLine carries the id of its       *)
(* item; confidences and similarities are in thousandths.                  *)
(***************************************************************************)
\* a ResolvedLine whose MatchResult names the item by its name
NamedLine(raw, quantity, cat, item_id, confidence, approximate, reason) ==
    [raw |-> raw,
     quantity |-> quantity,
     item_id |-> item_id,
     alias |-> GetItem(cat, item_id).name,
     normalized |-> normalize_label(GetItem(cat, item_id).name),
     similarity |-> confidence,
     approximate |-> approximate,
     confidence |-> confidence,
     reason |-> reason,
     alternates |-> <<>>]

\* the sizes a label votes for: those with a synonym among its tokens, when
\* it is a mattress line
SizesVoted(tokens) ==
    IF tokens \cap {<<"m","a","t","t","r","e","s","s">>, <<"m","a","t","t","r","e","s">>} # {}
    THEN {size \in Range(BED_SIZE_ORDER) : tokens \cap BED_SIZE_SYNONYMS[size] # {}}
    ELSE {}

\* the quantities of the lines voting for each size of BED_SIZE_ORDER
Tally(counter, voting) ==
    [j \in 1..Len(BED_SIZE_ORDER) |->
        SumSeq([i \in 1..Len(counter) |->
            IF BED_SIZE_ORDER[j] \in voting[i] THEN counter[i].quantity ELSE 0])]

\* votes after the loop over counter.items(), as the sequence of the counts
\* of the sizes of BED_SIZE_ORDER
MattressVotes(counter) ==
    Tally(counter,
          Listed([i \in 1..Len(counter) |->
                     SizesVoted(Range(tokenize(normalize_label(counter[i].raw))))]))

\* the first of the sizes with the leading count
FirstOf(leaders) ==
    IF leaders = {} THEN <<>>
    ELSE BED_SIZE_ORDER[CHOOSE j \in leaders : \A h \in leaders : j <= h]

\* the sizes the loop over BED_SIZE_ORDER can end on: a positive count that
\* no other size exceeds; the first of them is kept.  <<>> stands for None.
Leader(votes) ==
    FirstOf({j \in 1..Len(votes) : votes[j] > 0 /\ \A h \in 1..Len(votes) : votes[h] <= votes[j]})

LeadingSize(counter) == Leader(MattressVotes(counter))

\* a _bed_majority that kept its votes from one call to the next
BedMajorityAcrossCalls(counter) == LeadingSize(prev.last \o counter)

\* the size with the most mattress votes
_bed_majority(counter) == LeadingSize(counter)

\* a bed rule that maps every accessory to the first size of BED_SIZE_ORDER
BedTargetOfFirstSize(tokens, cat, size) ==
    LET lower_tokens == Range(tokens)
        headboard == BED_SIZE_TARGETS.headboard[BED_SIZE_ORDER[1]]
        frame == BED_SIZE_TARGETS.frame[BED_SIZE_ORDER[1]]
        box_spring == BED_SIZE_TARGETS.box_spring[BED_SIZE_ORDER[1]]
    IN IF size = <<>> THEN <<>>
       ELSE IF <<"h","e","a","d","b","o","a","r","d">> \in lower_tokens /\ HasItem(cat, headboard) THEN headboard
       ELSE IF <<"f","r","a","m","e">> \in lower_tokens /\ HasItem(cat, frame) THEN frame
       ELSE IF <<"b","o","x">> \in lower_tokens /\ <<"s","p","r","i","n","g">> \in lower_tokens /\ HasItem(cat, box_spring)
            THEN box_spring
       ELSE <<>>

\* the id _family_bed_mapping resolves to, <<>> when it returns None
BedTarget(tokens, cat, size) ==
    LET lower_tokens == Range(tokens)
        headboard == BED_SIZE_TARGETS.headboard[size]
        frame == BED_SIZE_TARGETS.frame[size]
        box_spring == BED_SIZE_TARGETS.box_spring[size]
    IN IF size = <<>> THEN <<>>
       ELSE IF <<"h","e","a","d","b","o","a","r","d">> \in lower_tokens /\ HasItem(cat, headboard) THEN headboard
       ELSE IF <<"f","r","a","m","e">> \in lower_tokens /\ HasItem(cat, frame) THEN frame
       ELSE IF <<"b","o","x">> \in lower_tokens /\ <<"s","p","r","i","n","g">> \in lower_tokens /\ HasItem(cat, box_spring)
            THEN box_spring
       ELSE <<>>

_build_family_line(raw, quantity, cat, item_id, reason) ==
    NamedLine(raw, quantity, cat, item_id, 900, TRUE, reason)

_family_bed_mapping(raw, tokens, quantity, cat, size) ==
    IF BedTarget(tokens, cat, size) = <<>> THEN <<>>
    ELSE <<_build_family_line(raw, quantity, cat, BedTarget(tokens, cat, size), "family_bed")>>

\* the lines of _family_dresser: one line, or none for None
_family_dresser(raw, tokens, quantity, cat) ==
    LET hits == {i \in 1..Len(tokens) :
                    /\ tokens[i] \in DOMAIN DRESSER_RULES
                    /\ HasItem(cat, DRESSER_RULES[tokens[i]])}
        first == CHOOSE i \in hits : \A j \in hits : i <= j
    IN IF hits # {}
       THEN <<NamedLine(raw, quantity, cat, DRESSER_RULES[tokens[first]], 850, TRUE,
                        "family_dresser")>>
       ELSE IF {<<"d","r","e","s","s","e","r">>, <<"b","u","r","e","a","u">>} \cap Range(tokens) # {} /\ HasItem(cat, <<"d","r","e","s","s","e","r","_","s","t","a","n","d","a","r","d">>)
            THEN <<NamedLine(raw, quantity, cat, <<"d","r","e","s","s","e","r","_","s","t","a","n","d","a","r","d">>, 820, TRUE,
                             "family_dresser")>>
       ELSE <<>>

\* needle in haystack, for strings
IsSubstring(needle, haystack) ==
    \E i \in 1..(Len(haystack) - Len(needle) + 1) :
        SubSeq(haystack, i, i + Len(needle) - 1) = needle

\* _family_piano: status "none" for None, "lines" with the lines and the
\* assumptions it appended, "TypeError" where line 305 applies & to the
\* token list and a set
_family_piano(raw, tokens, quantity, cat) ==
    LET normalized == Join(tokens, <<" ">>)
        grand == <<"g","r","a","n","d">> \in Range(tokens) \/ IsSubstring(<<"b","a","b","y"," ","g","r","a","n","d">>, normalized)
        chosen_id == IF grand THEN <<"p","i","a","n","o","_","g","r","a","n","d">> ELSE <<"p","i","a","n","o","_","u","p","r","i","g","h","t">>
        confidence == IF grand THEN 900 ELSE 850
        piano == IF HasItem(cat, chosen_id)
                 THEN <<NamedLine(raw, quantity, cat, chosen_id, confidence, TRUE,
                                  "family_piano")>>
                 ELSE <<>>
        with_bench == <<"b","e","n","c","h">> \in Range(tokens) /\ HasItem(cat, <<"b","e","n","c","h","_","p","i","a","n","o">>)
        bench_raw == raw \o <<" ","(","b","e","n","c","h",")">>
        bench == IF with_bench
                 THEN <<NamedLine(bench_raw, quantity, cat, <<"b","e","n","c","h","_","p","i","a","n","o">>, 800, TRUE,
                                  "family_piano")>>
                 ELSE <<>>
        noted == IF with_bench
                 THEN <<[type |-> "best_match", raw |-> bench_raw,
                         chosen_id |-> <<"b","e","n","c","h","_","p","i","a","n","o">>, confidence |-> 800,
                         alternates |-> <<>>, resolver |-> "family_piano"]>>
                 ELSE <<>>
    IN IF <<"p","i","a","n","o">> \notin Range(tokens) THEN [status |-> "none", lines |-> <<>>, assumptions |-> <<>>]
       ELSE IF ~grand THEN [status |-> "TypeError", lines |-> <<>>, assumptions |-> <<>>]
       ELSE IF piano \o bench = <<>>
            THEN [status |-> "none", lines |-> <<>>, assumptions |-> noted]
       ELSE [status |-> "lines", lines |-> piano \o bench, assumptions |-> noted]

\* a box strategy that emits a line for every size, whatever its count
ApplyBoxesForEverySize(raw, quantity, cat, options) ==
    LET allocation == allocate_boxes(quantity, options.box_allocation_policy)
    IN [lines |->
            [k \in 1..Len(BoxSizes) |->
                NamedLine(raw \o <<" ","(">> \o BoxSizes[k] \o <<")">>, allocation[BoxSizes[k]], cat,
                          BOX_ID_MAP[BoxSizes[k]], 900, FALSE, "box_distribution")],
        assumptions |->
            <<[type |-> "box_distribution",
               inputs |-> [total_boxes |-> quantity, policy |-> options.box_allocation_policy],
               result |-> allocation]>>]

\* _apply_boxes: the lines and the assumption it appends
_apply_boxes(raw, quantity, cat, options) ==
    LET allocation == allocate_boxes(quantity, options.box_allocation_policy)
        LineFor(size) ==
            IF allocation[size] <= 0 \/ ~HasItem(cat, BOX_ID_MAP[size]) THEN <<>>
            ELSE <<NamedLine(raw \o <<" ","(">> \o size \o <<")">>, allocation[size], cat,
                             BOX_ID_MAP[size], 900, FALSE, "box_distribution")>>
    IN [lines |-> Concat([k \in 1..Len(BoxSizes) |-> LineFor(BoxSizes[k])]),
        assumptions |->
            <<[type |-> "box_distribution",
               inputs |-> [total_boxes |-> quantity, policy |-> options.box_allocation_policy],
               result |-> allocation]>>]

\* a Candidate for every alias record, in alias_records order
ScoredRecords(norm, tokens, cat) ==
    [i \in 1..Len(cat.alias_records) |->
        [record |-> cat.alias_records[i],
         score |-> _candidate_score(norm, cat.alias_records[i]),
         coverage |-> _candidate_coverage(tokens, cat.alias_records[i]),
         category |-> GetItem(cat, cat.alias_records[i].item_id).category,
         weight |-> GetItem(cat, cat.alias_records[i].item_id).weight_lbs]]

AboveFloor(scored, confidence_floor) ==
    SelectSeq(scored, LAMBDA c : c.score >= confidence_floor)

\* the Candidate list of lines 548-564
Candidates(norm, tokens, cat, options) ==
    AboveFloor(ScoredRecords(norm, tokens, cat), options.confidence_floor)

\* sort_key of _deterministic_pick
SortKey(candidate, cat, category_hint) ==
    LET category == IF HasItem(cat, candidate.record.item_id)
                    THEN GetItem(cat, candidate.record.item_id).category ELSE ""
        median_weight ==
            IF HasMedoid(cat, category) /\ HasItem(cat, MedoidId(cat, category))
            THEN GetItem(cat, MedoidId(cat, category)).weight_lbs ELSE 0
    IN [coverage |-> -candidate.coverage,
        score |-> -candidate.score,
        category_rank |-> IF category = category_hint THEN 0 ELSE 1,
        weight_delta |-> Abs(candidate.weight - median_weight),
        priority |-> candidate.record.priority,
        item_id |-> candidate.record.item_id]

\* tuple comparison of two sort keys
KeyLess(a, b) ==
    \/ a.coverage < b.coverage
    \/ /\ a.coverage = b.coverage
       /\ \/ a.score < b.score
          \/ /\ a.score = b.score
             /\ \/ a.category_rank < b.category_rank
                \/ /\ a.category_rank = b.category_rank
                   /\ \/ a.weight_delta < b.weight_delta
                      \/ /\ a.weight_delta = b.weight_delta
                         /\ \/ a.priority < b.priority
                            \/ /\ a.priority = b.priority
                               /\ StrLess(a.item_id, b.item_id)

\* candidates.sort(key=sort_key): the list as _deterministic_pick leaves it
SortedCandidates(candidates, cat, category_hint) ==
    LET Before(a, b) == KeyLess(SortKey(a, cat, category_hint), SortKey(b, cat, category_hint))
    IN SortBy(candidates, Before)

\* a pick of the highest score alone
PickHighestScore(candidates, cat, category_hint) ==
    LET HigherScore(a, b) == a.score > b.score
    IN SortBy(candidates, HigherScore)[1]

_deterministic_pick(candidates, cat, category_hint) ==
    SortedCandidates(candidates, cat, category_hint)[1]

\* the (item id, score) pairs of by_score[1:3]
RunnersUp(by_score) ==
    [i \in 1..(Min(3, Len(by_score)) - 1) |->
        <<by_score[i + 1].record.item_id, by_score[i + 1].score>>]

\* sorted(candidates, key=score, reverse=True)[1:3], taken from the list
\* _deterministic_pick has sorted in place
Alternates(candidates, cat, category_hint) ==
    LET HigherScore(a, b) == a.score > b.score
    IN RunnersUp(SortBy(SortedCandidates(candidates, cat, category_hint), HigherScore))

\* _category_backstop: the id it picks, <<>> where it raises ValueError
BackstopId(tokens, cat) ==
    IF HasMedoid(cat, infer_category(tokens)) THEN MedoidId(cat, infer_category(tokens))
    ELSE IF cat.category_medoid # <<>> THEN cat.category_medoid[1].id
    ELSE <<>>

_category_backstop(raw, tokens, quantity, cat) ==
    [line |-> NamedLine(raw, quantity, cat, BackstopId(tokens, cat), 500, TRUE,
                        "category_backstop"),
     assumption |->
        [type |-> "category_backstop", category |-> infer_category(tokens),
         chosen_id |-> BackstopId(tokens, cat), reason |-> "no candidate >= floor"]]

(***************************************************************************)
(* app/resolver.py: resolve_inventory.  The counter is the sequence of its *)
(* (raw, quantity) entries in insertion order.  The outcome has status     *)
(* "ok" with the ResolverResult, or the name of the exception raised.      *)
(***************************************************************************)
Raised(exception) ==
    [status |-> exception, lines |-> <<>>, assumptions |-> <<>>,
     match_summary |-> [resolved_pct |-> 0, low_confidence_count |-> 0, resolver_policy |-> ""]]

SizeOf(entry) == entry.size

\* applied.setdefault(size, set()).add(raw)
AddApplied(size_applied, size, raw) ==
    LET at == IndexOf(size_applied, SizeOf, size)
    IN IF at = 0 THEN Append(size_applied, [size |-> size, applied |-> {raw}])
       ELSE [size_applied EXCEPT ![at].applied = @ \cup {raw}]

\* lines 565-590: the fuzzy line and its best_match assumption
FuzzyMatched(acc, raw, quantity, best, alternates) ==
    [acc EXCEPT
        !.lines =
            Append(@, [raw |-> raw, quantity |-> quantity,
                       item_id |-> best.record.item_id,
                       alias |-> best.record.alias,
                       normalized |-> best.record.normalized,
                       similarity |-> best.score, approximate |-> TRUE,
                       confidence |-> best.score, reason |-> "fuzzy_match",
                       alternates |-> alternates]),
        !.assumptions =
            Append(@, [type |-> "best_match", raw |-> raw,
                       chosen_id |-> best.record.item_id,
                       confidence |-> best.score, alternates |-> alternates,
                       resolver |-> "fuzzy"])]

\* lines 591-611: the backstop line and its two assumptions
Backstopped(acc, raw, backstop) ==
    [acc EXCEPT
        !.lines = Append(@, backstop.line),
        !.assumptions =
            @ \o <<backstop.assumption,
                   [type |-> "best_match", raw |-> raw,
                    chosen_id |-> backstop.line.item_id,
                    confidence |-> backstop.line.confidence,
                    alternates |-> <<>>, resolver |-> "category_backstop"]>>]

\* lines 546-611: the pick among the candidates, else the backstop
ResolveCandidates(acc, raw, quantity, cat, tokens, candidates, category_hint) ==
    IF candidates # <<>>
    THEN FuzzyMatched(acc, raw, quantity,
                      _deterministic_pick(candidates, cat, category_hint),
                      Alternates(candidates, cat, category_hint))
    ELSE IF BackstopId(tokens, cat) = <<>> THEN [acc EXCEPT !.status = "ValueError"]
    ELSE Backstopped(acc, raw, _category_backstop(raw, tokens, quantity, cat))

\* the piano rule, else the candidates
ResolvePiano(acc, raw, quantity, cat, options, norm, tokens, piano) ==
    IF piano.status = "TypeError" THEN [acc EXCEPT !.status = "TypeError"]
    ELSE IF piano.status = "lines"
         THEN [acc EXCEPT !.lines = @ \o piano.lines,
                          !.assumptions = @ \o piano.assumptions]
    ELSE ResolveCandidates(acc, raw, quantity, cat, tokens,
                           Candidates(norm, tokens, cat, options), infer_category(tokens))

\* the dresser rule, else the piano rule
ResolveDresser(acc, raw, quantity, cat, options, norm, tokens, dresser_line) ==
    IF dresser_line # <<>> THEN [acc EXCEPT !.lines = @ \o dresser_line]
    ELSE ResolvePiano(acc, raw, quantity, cat, options, norm, tokens,
                      _family_piano(raw, tokens, quantity, cat))

\* a bed rule that ends the call when the majority size has no line for a
\* bed accessory
ResolveFamilyOrAbort(acc, raw, quantity, cat, options, bed_size, norm, tokens, family_lines) ==
    IF family_lines # <<>>
    THEN [acc EXCEPT !.lines = @ \o family_lines,
                     !.size_applied = AddApplied(@, bed_size, raw)]
    ELSE IF /\ bed_size # <<>>
            /\ \/ {<<"h","e","a","d","b","o","a","r","d">>, <<"f","r","a","m","e">>} \cap Range(tokens) # {}
               \/ {<<"b","o","x">>, <<"s","p","r","i","n","g">>} \subseteq Range(tokens)
         THEN [acc EXCEPT !.status = "ValueError"]
    ELSE ResolveDresser(acc, raw, quantity, cat, options, norm, tokens,
                        _family_dresser(raw, tokens, quantity, cat))

\* the bed rule, else the dresser rule
ResolveFamily(acc, raw, quantity, cat, options, bed_size, norm, tokens, family_lines) ==
    IF family_lines # <<>>
    THEN [acc EXCEPT !.lines = @ \o family_lines,
                     !.size_applied = AddApplied(@, bed_size, raw)]
    ELSE ResolveDresser(acc, raw, quantity, cat, options, norm, tokens,
                        _family_dresser(raw, tokens, quantity, cat))

\* the lines and the assumption of _apply_boxes, appended
BoxesApplied(acc, boxed) ==
    [acc EXCEPT !.lines = @ \o boxed.lines, !.assumptions = @ \o boxed.assumptions]

\* the line of an alias record matched exactly
AliasMatched(acc, raw, quantity, norm, record) ==
    [acc EXCEPT !.lines =
        Append(@, [raw |-> raw, quantity |-> quantity,
                   item_id |-> record.item_id, alias |-> record.alias,
                   normalized |-> norm, similarity |-> 980,
                   approximate |-> FALSE, confidence |-> 980,
                   reason |-> "alias_exact", alternates |-> <<>>])]

\* a loop that looks the alias up before the item id
ResolveTokensAliasFirst(acc, raw, quantity, cat, options, bed_size, norm, tokens) ==
    IF norm = <<>> THEN acc
    ELSE IF norm = <<"b","o","x">> THEN BoxesApplied(acc, _apply_boxes(raw, quantity, cat, options))
    ELSE IF HasAlias(cat, norm)
         THEN AliasMatched(acc, raw, quantity, norm, GetAliasRecord(cat, norm))
    ELSE IF HasItem(cat, raw)
         THEN [acc EXCEPT !.lines =
                 Append(@, NamedLine(raw, quantity, cat, raw, 1000, FALSE, "exact_id"))]
    ELSE ResolveFamily(acc, raw, quantity, cat, options, bed_size, norm, tokens,
                       _family_bed_mapping(raw, tokens, quantity, cat, bed_size))

\* lines 493-611, for a label with its normalized form and its tokens
ResolveTokens(acc, raw, quantity, cat, options, bed_size, norm, tokens) ==
    IF norm = <<>> THEN acc
    ELSE IF norm = <<"b","o","x">> THEN BoxesApplied(acc, _apply_boxes(raw, quantity, cat, options))
    ELSE IF HasItem(cat, raw)
         THEN [acc EXCEPT !.lines =
                 Append(@, NamedLine(raw, quantity, cat, raw, 1000, FALSE, "exact_id"))]
    ELSE IF HasAlias(cat, norm)
         THEN AliasMatched(acc, raw, quantity, norm, GetAliasRecord(cat, norm))
    ELSE ResolveFamily(acc, raw, quantity, cat, options, bed_size, norm, tokens,
                       _family_bed_mapping(raw, tokens, quantity, cat, bed_size))

ResolveNormalized(acc, raw, quantity, cat, options, bed_size, norm) ==
    ResolveTokens(acc, raw, quantity, cat, options, bed_size, norm, tokenize(norm))

\* one pass of the loop of lines 486-611 over the entry (raw, quantity)
ResolveLabel(acc, raw, quantity, cat, options, bed_size) ==
    IF acc.status # "ok" THEN acc
    ELSE IF quantity <= 0 THEN acc
    ELSE ResolveNormalized(acc, raw, quantity, cat, options, bed_size, normalize_label(raw))

RECURSIVE ResolveLoop(_, _, _, _, _)
ResolveLoop(acc, counter, cat, options, bed_size) ==
    IF counter = <<>> THEN acc
    ELSE ResolveLoop(
            ResolveLabel(acc, Head(counter).raw, Head(counter).quantity, cat, options, bed_size),
            Tail(counter), cat, options, bed_size)

\* sorted(applied)
SortedStrings(S) ==
    [k \in 1..Cardinality(S) |->
        CHOOSE x \in S : Cardinality({y \in S : StrLess(y, x)}) = k - 1]

\* lines 612-619
SizeInheritance(size_applied) ==
    [k \in 1..Len(size_applied) |->
        [type |-> "size_inheritance",
         from |-> <<"b","e","d","_">> \o size_applied[k].size \o <<"_","m","a","t","t","r","e","s","s">>,
         applied_to |-> SortedStrings(size_applied[k].applied)]]

\* a result that keeps the assumptions of the strategies alone
NoSynthesizedBestMatches(lines, assumptions) == <<>>

\* lines 620-635: a best_match entry for every line that has none
SynthesizedBestMatches(lines, assumptions) ==
    LET recorded == {<<assumptions[i].raw, assumptions[i].chosen_id>> :
                        i \in {k \in 1..Len(assumptions) : assumptions[k].type = "best_match"}}
        missing == SelectSeq(lines, LAMBDA line : <<line.raw, line.item_id>> \notin recorded)
    IN [k \in 1..Len(missing) |->
            [type |-> "best_match", raw |-> missing[k].raw,
             chosen_id |-> missing[k].item_id, confidence |-> missing[k].confidence,
             alternates |-> missing[k].alternates, resolver |-> missing[k].reason]]

\* the assumptions with the synthesized best_match entries
WithSynthesized(lines, inherited) == inherited \o SynthesizedBestMatches(lines, inherited)

\* lines 612-642: the ResolverResult of the loop's outcome
ResultOf(looped, options) ==
    IF looped.status # "ok" THEN Raised(looped.status)
    ELSE [status |-> "ok",
          lines |-> looped.lines,
          assumptions |->
             WithSynthesized(looped.lines,
                             looped.assumptions \o SizeInheritance(looped.size_applied)),
          match_summary |->
             [resolved_pct |-> 100,
              low_confidence_count |->
                 Cardinality({i \in 1..Len(looped.lines) : looped.lines[i].confidence < 750}),
              resolver_policy |-> options.resolver_policy]]

resolve_inventory(counter, cat, options) ==
    ResultOf(ResolveLoop([status |-> "ok", lines |-> <<>>, assumptions |-> <<>>,
                          size_applied |-> <<>>],
                         counter, cat, options, _bed_majority(counter)),
             options)

(***************************************************************************)
(* Specification SpecBoxes: allocate_boxes applied to a drawn input.       *)
(***************************************************************************)
\* largest box total drawn
MaxBoxes == 14

\* the default policy (ResolverOptions.box_allocation_policy), policies with
\* fewer and more than four chunks, with an invalid, a signed and an empty
\* chunk, and policies whose percentages add up to less and to more than 100
BoxPolicies ==
    {<<"5","0","/","3","5","/","1","0","/","5">>, <<"5","0","/","3","5","/","1","0">>, <<"1","0","/","1","0","/","1","0","/","1","0">>, <<"1","0","0","/","1","0","0">>, <<"x","/","5","0","/","5","0">>,
     <<"4","0","/","3","0","/","2","0","/","1","0","/","5","0">>, <<"6","0","/"," ","4","0">>, <<"-","5","0","/","1","5","0">>, <<>>}

NoBoxes == [size \in Range(BoxSizes) |-> 0]

InitBoxes ==
    /\ catalog = <<>>
    /\ rules = <<>>
    /\ rr = <<>>
    /\ prev = <<>>
    /\ quote = <<>>
    /\ ret = <<>>
    /\ store = <<>>
    /\ clock = 0
    /\ packing_catalog = <<>>
    /\ boxes = NoBoxes
    /\ op \in [name : {"call"}, total : (-1)..MaxBoxes, policy : BoxPolicies]

AllocateBoxes ==
    /\ op.name = "call"
    /\ boxes' = allocate_boxes(op.total, op.policy)
    /\ op' = [op EXCEPT !.name = "allocate_boxes"]
    /\ UNCHANGED <<catalog, rules, rr, prev, quote, ret, store, clock, packing_catalog>>

NextBoxes == AllocateBoxes

SpecBoxes == InitBoxes /\ [][NextBoxes]_vars

\* C3: for every total >= 0 and every policy string the counts returned by
\* allocate_boxes add up to exactly total, and for total <= 0 every size has
\* count 0.
BoxesSumToTotal ==
    op.name = "allocate_boxes" =>
        /\ op.total >= 0 => BoxTotal(boxes) = op.total
        /\ op.total <= 0 => boxes = NoBoxes

\* C3, the failing input: ten boxes under 10/10/10/10 come back as eight
BoxesShortOfTotal ==
    /\ op.name = "allocate_boxes"
    /\ op.total = 10
    /\ op.policy = <<"1","0","/","1","0","/","1","0","/","1","0">>
    /\ BoxTotal(boxes) = 8

(***************************************************************************)
(* Specification SpecPricing: optimize and evaluate_candidate applied to a *)
(* drawn quote context.                                                    *)
(***************************************************************************)
\* largest quantity of the heavy item in the priced inventory
MaxQuantity == 45

\* PackingCatalog: the purchase rates of moving_rules.json, by carton code
PackingSkus ==
    (<<"1",".","5">> :> [box_rate |-> 2, labor_rate |-> 4])
    @@ (<<"3",".","0">> :> [box_rate |-> 3, labor_rate |-> 5])

\* raw location dicts of a request (schemas.Location)
Locations ==
    {[location_type |-> <<"h","o","u","s","e">>, floor |-> 1],
     [location_type |-> <<"a","p","a","r","t","m","e","n","t">>, floor |-> 3, stairs_flights |-> 2,
      elevator |-> FALSE],
     [location_type |-> <<"c","o","n","d","o">>, floor |-> 2, elevator |-> TRUE,
      long_carry_feet |-> 120]}

\* (weekday, distance): a Wednesday and a Saturday local move, a Saturday
\* intrastate move
MoveDays == {<<2, 10>>, <<5, 10>>, <<5, 45>>}

\* packing request and options: no packing, cartons packed by the crew,
\* cartons bought only and a not-to-exceed quote
Services ==
    {[service |-> "none", cartons |-> <<>>, not_to_exceed |-> FALSE],
     [service |-> "CP",
      cartons |-> <<[code |-> <<"1",".","5">>, quantity |-> 10], [code |-> <<"3",".","0">>, quantity |-> 4],
                    [code |-> <<"t","v">>, quantity |-> 1]>>,
      not_to_exceed |-> FALSE],
     [service |-> "PBO", cartons |-> <<[code |-> <<"3",".","0">>, quantity |-> 6]>>,
      not_to_exceed |-> TRUE]}

\* the resolved inventory: safes (safe_large, 320 lbs) and rugs (rug_large)
Allocations(safes, rugs) ==
    (IF safes > 0 THEN <<[weight_lbs |-> 320, quantity |-> safes]>> ELSE <<>>)
    \o (IF rugs > 0 THEN <<[weight_lbs |-> 50, quantity |-> rugs]>> ELSE <<>>)

QuoteContext(r, safes, rugs, origin, day, svc) ==
    [weekday |-> day[1],
     distance_miles |-> day[2],
     origin |-> [raw |-> origin, access_rule |-> access_for_location(r, origin)],
     destination |->
        [raw |-> [location_type |-> <<"h","o","u","s","e">>, floor |-> 1],
         access_rule |-> access_for_location(r, [location_type |-> <<"h","o","u","s","e">>, floor |-> 1])],
     allocations |-> Allocations(safes, rugs),
     packing_request |-> [service |-> svc.service, cartons |-> svc.cartons],
     options |-> [not_to_exceed |-> svc.not_to_exceed]]

NoQuote == [status |-> "none"]

InitPricing ==
    /\ catalog = <<>>
    /\ boxes = <<>>
    /\ rr = <<>>
    /\ prev = <<>>
    /\ quote = NoQuote
    /\ ret = <<>>
    /\ store = <<>>
    /\ clock = 0
    /\ packing_catalog = <<>>
    /\ rules \in RuleSets
    /\ \E safes \in 0..MaxQuantity, rugs \in 0..1, origin \in Locations,
          day \in MoveDays, svc \in Services :
            op = [name |-> "request",
                  ctx |-> QuoteContext(rules, safes, rugs, origin, day, svc),
                  movers |-> 0, trucks |-> 0]

Optimize ==
    /\ op.name = "request"
    /\ quote' = optimize(op.ctx, rules, PackingSkus)
    /\ op' = [op EXCEPT !.name = "optimize"]
    /\ UNCHANGED <<catalog, rules, boxes, rr, prev, ret, store, clock, packing_catalog>>

EvaluateCandidate ==
    /\ op.name = "request"
    /\ \E movers \in rules.min_movers..rules.max_movers, trucks \in 1..rules.max_trucks :
            /\ quote' = [status |-> "ok",
                         best |-> evaluate_candidate(movers, trucks, op.ctx, rules, PackingSkus),
                         candidate_count |-> 1]
            /\ op' = [op EXCEPT !.name = "evaluate_candidate",
                                !.movers = movers, !.trucks = trucks]
    /\ UNCHANGED <<catalog, rules, boxes, rr, prev, ret, store, clock, packing_catalog>>

NextPricing == Optimize \/ EvaluateCandidate

SpecPricing == InitPricing /\ [][NextPricing]_vars

\* the (movers, trucks) pairs optimize's loops range over, as a set
SearchedPairs ==
    LET weight == total_weight(op.ctx)
    IN {pair \in (MinMoversForWeight(rules, weight)..rules.max_movers)
                 \X (MinTrucks(rules, weight)..Max(rules.max_trucks, MinTrucks(rules, weight))) :
            TRUE}

PriceOf(pair) ==
    evaluate_candidate(pair[1], pair[2], op.ctx, rules, PackingSkus).total_price

\* C2: for every weight and every rule set with 1 <= min_movers <=
\* max_movers the mover count optimize searches from is at most max_movers,
\* so the grid is not empty and optimize returns a quote.
OptimizeAlwaysQuotes ==
    op.name = "optimize" =>
        /\ MinMoversForWeight(rules, total_weight(op.ctx)) <= rules.max_movers
        /\ quote.status = "ok"

\* C2, the failing input: under the rules of load_rules an inventory of
\* more than 14000 lbs asks for a seventh mover and optimize raises
OptimizeRaisesOnHeavyLoad ==
    /\ op.name = "optimize"
    /\ rules = load_rules(RateCards)
    /\ total_weight(op.ctx) > 14000
    /\ MinMoversForWeight(rules, total_weight(op.ctx)) = 7
    /\ quote.status = "ValueError"

\* C4: the quote optimize returns is priced at or below every pair of the
\* searched grid, and every pair with the same price comes at or after it
\* in the order movers ascending, then trucks ascending.
OptimizeReturnsFirstCheapest ==
    (op.name = "optimize" /\ quote.status = "ok") =>
        /\ <<quote.best.movers, quote.best.trucks>> \in SearchedPairs
        /\ quote.best.total_price = PriceOf(<<quote.best.movers, quote.best.trucks>>)
        /\ \A pair \in SearchedPairs :
              /\ ~RLess(PriceOf(pair), quote.best.total_price)
              /\ PriceOf(pair) = quote.best.total_price =>
                    \/ pair[1] > quote.best.movers
                    \/ pair[1] = quote.best.movers /\ pair[2] >= quote.best.trucks

\* C4 witness: optimize returned the first of several cheapest pairs
OptimizeBrokeTie ==
    /\ op.name = "optimize"
    /\ quote.status = "ok"
    /\ \E pair \in SearchedPairs :
          /\ pair # <<quote.best.movers, quote.best.trucks>>
          /\ PriceOf(pair) = quote.best.total_price

\* productivity + travel + site adjustments + packing, from the trace of
\* the quote
TotalHoursOf(q) ==
    RAdd(RAdd(q.work_hours, q.travel_hours),
         RAdd(Rat(q.adjustment_minutes, 60), q.packing_time_hours))

\* C5: every evaluated candidate, and so the quote optimize returns, has
\* billable_hours >= min_billable_hours, and billable_hours is the total of
\* the computed hours whenever that total exceeds the minimum.
BillableHoursAtLeastMinimum ==
    quote.status = "ok" =>
        /\ ~RLess(quote.best.billable_hours, rules.min_billable_hours)
        /\ RLess(rules.min_billable_hours, TotalHoursOf(quote.best)) =>
              quote.best.billable_hours = TotalHoursOf(quote.best)

\* C5 witness: a candidate whose hours fall short is billed the minimum
ShortJobBilledMinimum ==
    /\ op.name = "evaluate_candidate"
    /\ quote.status = "ok"
    /\ RLess(TotalHoursOf(quote.best), rules.min_billable_hours)
    /\ quote.best.billable_hours = rules.min_billable_hours

\* the contexts of the model that differ from the current one in the
\* number of safes only
SameMoveWithSafes(safes) ==
    [op.ctx EXCEPT !.allocations =
        Allocations(safes,
            SumSeq([i \in 1..Len(op.ctx.allocations) |->
                IF op.ctx.allocations[i].weight_lbs = 50
                THEN op.ctx.allocations[i].quantity ELSE 0]))]

\* C6: the mover count optimize searches from does not decrease as the
\* weight grows, exceeds min_movers once the weight exceeds the baseline
\* threshold, and the returned quote never has fewer movers.
MinMoversScaleWithWeight ==
    op.name = "optimize" =>
        LET weight == total_weight(op.ctx)
            floor == MinMoversForWeight(rules, weight)
        IN /\ \A safes \in 0..MaxQuantity :
                 LET other == total_weight(SameMoveWithSafes(safes))
                 IN other <= weight => MinMoversForWeight(rules, other) <= floor
           /\ weight > rules.baseline_mover_threshold_lbs => floor > rules.min_movers
           /\ quote.status = "ok" => quote.best.movers >= floor

\* C6 witness: a load past the baseline was quoted with more than the
\* configured minimum of movers
HeavyLoadQuotedWithMoreMovers ==
    /\ op.name = "optimize"
    /\ quote.status = "ok"
    /\ total_weight(op.ctx) > rules.baseline_mover_threshold_lbs
    /\ MinMoversForWeight(rules, total_weight(op.ctx)) > rules.min_movers
    /\ quote.best.movers >= MinMoversForWeight(rules, total_weight(op.ctx))

(***************************************************************************)
(* Specification SpecResolve: resolve_inventory, and the box strategy on   *)
(* its own, applied to a drawn catalog, counter and options.               *)
(***************************************************************************)
\* largest quantity drawn for a label, the ten boxes of the example aside
MaxQty == 2

Quantities == (0..MaxQty) \cup {10}

LabelAt == 1..Len(Labels)

\* the counters of the requests: every label alone, every ordered pair of
\* labels, two mattress sizes voting on a bed accessory, and the batch of
\* the bed example
Singles == {<<[raw |-> Labels[i], quantity |-> q]>> : i \in LabelAt, q \in Quantities}

Pairs ==
    {<<[raw |-> Labels[p[1]], quantity |-> 1], [raw |-> Labels[p[2]], quantity |-> MaxQty]>> :
        p \in {q \in LabelAt \X LabelAt : q[1] # q[2]}}

Accessories == {<<"h","e","a","d","b","o","a","r","d">>, <<"b","e","d"," ","f","r","a","m","e">>, <<"b","o","x"," ","s","p","r","i","n","g">>, <<"h","e","a","d","b","o","a","r","d"," ","a","n","d"," ","f","r","a","m","e">>}

BedBatches ==
    {<<[raw |-> <<"b","e","d","_","k","i","n","g","_","m","a","t","t","r","e","s","s">>, quantity |-> v[1]],
       [raw |-> <<"q","u","e","e","n"," ","m","a","t","t","r","e","s","s">>, quantity |-> v[2]],
       [raw |-> accessory, quantity |-> MaxQty]>> :
        v \in (0..MaxQty) \X (0..MaxQty), accessory \in Accessories}
    \cup {<<[raw |-> <<"b","e","d","_","k","i","n","g","_","m","a","t","t","r","e","s","s">>, quantity |-> 3],
            [raw |-> <<"h","e","a","d","b","o","a","r","d">>, quantity |-> 3],
            [raw |-> <<"b","e","d"," ","f","r","a","m","e">>, quantity |-> 3],
            [raw |-> <<"b","o","x"," ","s","p","r","i","n","g">>, quantity |-> 3]>>}


\* the options of the requests: the defaults, the strict floor of the
\* backstop example, and a policy with a negative share
StrictOptions == [DefaultOptions EXCEPT !.confidence_floor = 990]
SignedPolicyOptions == [DefaultOptions EXCEPT !.box_allocation_policy = <<"-","5","0","/","1","5","0">>]
OptionSets == {DefaultOptions, StrictOptions, SignedPolicyOptions}

\* a label alone and a bed batch come under every option set, a pair under
\* the defaults
Requests ==
    [name : {"request"}, counter : Singles \cup BedBatches, options : OptionSets]
    \cup [name : {"request"}, counter : Pairs, options : {DefaultOptions}]

NoOutcome == Raised("none")

\* the calls made so far: the first one completed, the counter of the last
\* one completed, and whether a call with another input followed the first
NoCall == [counter |-> <<>>, options |-> DefaultOptions, outcome |-> NoOutcome]
NoCalls == [first |-> NoCall, last |-> <<>>, between |-> FALSE]

InitResolve ==
    /\ rules = <<>>
    /\ boxes = <<>>
    /\ quote = <<>>
    /\ ret = <<>>
    /\ store = <<>>
    /\ clock = 0
    /\ packing_catalog = <<>>
    /\ rr = NoOutcome
    /\ prev = NoCalls
    /\ catalog \in Catalogs
    /\ op \in Requests

\* resolve_inventory(counter, catalog, options) on the shared catalog
Resolve ==
    /\ op.name = "request"
    /\ LET outcome == resolve_inventory(op.counter, catalog, op.options)
           first == IF prev.first = NoCall
                    THEN [counter |-> op.counter, options |-> op.options, outcome |-> outcome]
                    ELSE prev.first
       IN /\ rr' = outcome
          /\ prev' = [first |-> first,
                      last |-> op.counter,
                      between |-> \/ prev.between
                                  \/ /\ prev.first # NoCall
                                     /\ <<op.counter, op.options>>
                                            # <<prev.first.counter, prev.first.options>>]
    /\ op' = [op EXCEPT !.name = "resolve_inventory"]
    /\ UNCHANGED <<catalog, rules, boxes, quote, ret, store, clock, packing_catalog>>

\* _apply_boxes(raw, quantity, catalog, options, assumptions) on a label
\* that normalizes to the box keyword, with an empty assumptions list
ApplyBoxes ==
    /\ op.name = "request"
    /\ Len(op.counter) = 1
    /\ op.counter[1].quantity > 0
    /\ normalize_label(op.counter[1].raw) = <<"b","o","x">>
    /\ LET boxed == _apply_boxes(op.counter[1].raw, op.counter[1].quantity, catalog, op.options)
       IN rr' = [NoOutcome EXCEPT !.status = "ok", !.lines = boxed.lines,
                                  !.assumptions = boxed.assumptions]
    /\ op' = [op EXCEPT !.name = "_apply_boxes"]
    /\ UNCHANGED <<catalog, rules, boxes, prev, quote, ret, store, clock, packing_catalog>>

NextResolve == Resolve \/ ApplyBoxes

SpecResolve == InitResolve /\ [][NextResolve]_vars

(***************************************************************************)
(* Specification SpecHistory: a session of resolve_inventory calls on the  *)
(* shared catalog, which remembers its first call.                         *)
(***************************************************************************)
HistoryInventories ==
    {<<[raw |-> <<"q","u","e","e","n"," ","m","a","t","t","r","e","s","s">>, quantity |-> 1], [raw |-> <<"b","e","d"," ","f","r","a","m","e">>, quantity |-> 1]>>,
     <<[raw |-> <<"b","e","d","_","k","i","n","g","_","m","a","t","t","r","e","s","s">>, quantity |-> MaxQty]>>,
     <<[raw |-> <<"b","o","x">>, quantity |-> 10]>>,
     <<[raw |-> <<"d","r","e","s","e","r">>, quantity |-> 1], [raw |-> <<"e","n","i","g","m","a","t","i","c"," ","i","t","e","m">>, quantity |-> 1]>>,
     <<[raw |-> <<"o","l","d"," ","p","i","a","n","o">>, quantity |-> 1]>>}

HistoryOptions == {DefaultOptions, StrictOptions}

InitHistory ==
    /\ rules = <<>>
    /\ boxes = <<>>
    /\ quote = <<>>
    /\ ret = <<>>
    /\ store = <<>>
    /\ clock = 0
    /\ packing_catalog = <<>>
    /\ rr = NoOutcome
    /\ prev = NoCalls
    /\ catalog \in Catalogs
    /\ op \in [name : {"request"}, counter : HistoryInventories, options : HistoryOptions]

\* the next request of the session arrives
Request ==
    /\ op.name = "resolve_inventory"
    /\ op' \in [name : {"request"}, counter : HistoryInventories, options : HistoryOptions]
    /\ UNCHANGED <<catalog, rules, boxes, rr, prev, quote, ret, store, clock, packing_catalog>>

NextHistory == Resolve \/ Request

SpecHistory == InitHistory /\ [][NextHistory]_vars

(***************************************************************************)
(* The entries of the counter of the current call.                         *)
(***************************************************************************)
Returned == op.name = "resolve_inventory"

EntryAt == 1..Len(op.counter)
RawOf(i) == op.counter[i].raw
QuantityOf(i) == op.counter[i].quantity
NormOf(i) == normalize_label(RawOf(i))
TokensOf(i) == tokenize(NormOf(i))

\* a raw label with positive quantity and a non-empty normalized form
WellFormed(i) == QuantityOf(i) > 0 /\ NormOf(i) # <<>>

StartsWith(s, prefix) == Len(s) >= Len(prefix) /\ SubSeq(s, 1, Len(prefix)) = prefix

\* the lines emitted for entry i: its raw label, or its raw label followed
\* by a parenthesis (a box size, the bench of a piano)
LinesOf(i) ==
    {k \in 1..Len(rr.lines) :
        rr.lines[k].raw = RawOf(i) \/ StartsWith(rr.lines[k].raw, RawOf(i) \o <<" ","(">>)}

\* matched by the box, exact-id or exact-alias strategy
MatchedEarly(i) ==
    \/ NormOf(i) = <<"b","o","x">>
    \/ HasItem(catalog, RawOf(i))
    \/ HasAlias(catalog, NormOf(i))

(***************************************************************************)
(* C1                                                                      *)
(***************************************************************************)
\* C1: for every catalog with at least one category medoid and every
\* counter, resolve_inventory returns normally and emits at least one line
\* for each raw label with positive quantity and a non-empty normalized
\* form.
ResolveEmitsLineForEveryLabel ==
    (Returned /\ catalog.category_medoid # <<>>) =>
        /\ rr.status = "ok"
        /\ \A i \in EntryAt : WellFormed(i) => LinesOf(i) # {}

\* C1, the failing input: the label "old piano" alone, on a catalog that
\* stocks pianos, ends the call with a TypeError
PianoLabelRaisesTypeError ==
    /\ Returned
    /\ catalog = FullCatalog
    /\ op.counter = <<[raw |-> <<"o","l","d"," ","p","i","a","n","o">>, quantity |-> 1]>>
    /\ op.options = DefaultOptions
    /\ WellFormed(1)
    /\ rr.status = "TypeError"
    /\ rr.lines = <<>>

(***************************************************************************)
(* C7                                                                      *)
(***************************************************************************)
\* (raw, item id, quantity, reason, confidence) of every line, in order
LineFacts(outcome) ==
    [k \in 1..Len(outcome.lines) |->
        <<outcome.lines[k].raw, outcome.lines[k].item_id, outcome.lines[k].quantity,
          outcome.lines[k].reason, outcome.lines[k].confidence>>]

\* aggregated quantity of every item id of the lines
Totals(outcome) ==
    [id \in {outcome.lines[k].item_id : k \in 1..Len(outcome.lines)} |->
        SumSeq([k \in 1..Len(outcome.lines) |->
            IF outcome.lines[k].item_id = id THEN outcome.lines[k].quantity ELSE 0])]

RepeatsFirstCall ==
    /\ Returned
    /\ prev.first # NoCall
    /\ op.counter = prev.first.counter
    /\ op.options = prev.first.options

MajoritySize == _bed_majority(op.counter)

\* the ids BED_SIZE_TARGETS holds, for the majority size, for the accessory
\* tokens entry i carries, in the order the rule tries them
AccessoryTargets(i) ==
    LET tokens == Range(TokensOf(i))
    IN (IF <<"h","e","a","d","b","o","a","r","d">> \in tokens THEN <<BED_SIZE_TARGETS.headboard[MajoritySize]>> ELSE <<>>)
       \o (IF <<"f","r","a","m","e">> \in tokens THEN <<BED_SIZE_TARGETS.frame[MajoritySize]>> ELSE <<>>)
       \o (IF {<<"b","o","x">>, <<"s","p","r","i","n","g">>} \subseteq tokens
           THEN <<BED_SIZE_TARGETS.box_spring[MajoritySize]>> ELSE <<>>)

\* those of them the catalog holds
StockedTargets(i) == SelectSeq(AccessoryTargets(i), LAMBDA id : HasItem(catalog, id))

SizeInheritanceEntries == SelectSeq(rr.assumptions, LAMBDA a : a.type = "size_inheritance")

\* the accessory entries the bed rule is asked about
BedRuleEntries ==
    {i \in EntryAt : WellFormed(i) /\ AccessoryTargets(i) # <<>> /\ ~MatchedEarly(i)}

\* C8, as stated: when the mattress lines give a majority size S, every
\* line with a headboard, frame or box and spring token that the box,
\* exact-id and exact-alias strategies do not match resolves to the
\* S-specific id with reason family_bed and its full quantity, and the
\* ledger holds exactly one size_inheritance entry, from bed_S_mattress.
\* Read on the results of calls that return, for lines of positive quantity,
\* and for batches with at least one such line.
BedAccessoriesResolveToMajoritySize ==
    (Returned /\ rr.status = "ok" /\ MajoritySize # <<>> /\ BedRuleEntries # {}) =>
        /\ \A i \in BedRuleEntries :
              \E k \in 1..Len(rr.lines) :
                  /\ rr.lines[k].raw = RawOf(i)
                  /\ rr.lines[k].item_id \in Range(AccessoryTargets(i))
                  /\ rr.lines[k].reason = "family_bed"
                  /\ rr.lines[k].quantity = QuantityOf(i)
        /\ Len(SizeInheritanceEntries) = 1
        /\ SizeInheritanceEntries[1].from = <<"b","e","d","_">> \o MajoritySize \o <<"_","m","a","t","t","r","e","s","s">>

\* C8, amended: in the result resolve_inventory returns for a batch with
\* majority size S, every such line of positive quantity resolves, once, to
\* the first S-specific id of its accessory tokens that the catalog holds,
\* with reason family_bed and its full quantity; a line none of whose
\* S-specific ids is in the catalog is left to the later strategies; and
\* the ledger holds one size_inheritance entry, from bed_S_mattress and
\* listing the lines so resolved, when there is such a line and none
\* otherwise.
BedAccessoriesInheritStockedSize ==
    (Returned /\ rr.status = "ok" /\ MajoritySize # <<>>) =>
        LET mapped == {i \in BedRuleEntries : StockedTargets(i) # <<>>}
        IN /\ \A i \in mapped :
                 \E k \in 1..Len(rr.lines) :
                     /\ rr.lines[k].raw = RawOf(i)
                     /\ rr.lines[k].item_id = StockedTargets(i)[1]
                     /\ rr.lines[k].reason = "family_bed"
                     /\ rr.lines[k].quantity = QuantityOf(i)
                     /\ \A h \in 1..Len(rr.lines) : rr.lines[h].raw = RawOf(i) => h = k
           /\ \A i \in BedRuleEntries \ mapped :
                 \A k \in 1..Len(rr.lines) :
                     rr.lines[k].raw = RawOf(i) => rr.lines[k].reason # "family_bed"
           /\ IF mapped = {} THEN SizeInheritanceEntries = <<>>
              ELSE /\ Len(SizeInheritanceEntries) = 1
                   /\ SizeInheritanceEntries[1].from = <<"b","e","d","_">> \o MajoritySize \o <<"_","m","a","t","t","r","e","s","s">>
                   /\ Range(SizeInheritanceEntries[1].applied_to) = {RawOf(i) : i \in mapped}

\* C8 witness: queen mattresses outvote the king ones and the label with a
\* headboard and a frame token resolves to the queen frame, the queen
\* headboard not being in the catalog
QueenBatchResolvesFrame ==
    /\ Returned
    /\ rr.status = "ok"
    /\ catalog = FullCatalog
    /\ MajoritySize = <<"q","u","e","e","n">>
    /\ MattressVotes(op.counter)[1] > 0
    /\ \E i \in BedRuleEntries :
          /\ RawOf(i) = <<"h","e","a","d","b","o","a","r","d"," ","a","n","d"," ","f","r","a","m","e">>
          /\ StockedTargets(i) = <<<<"b","e","d","_","q","u","e","e","n","_","f","r","a","m","e">>>>
          /\ \E k \in 1..Len(rr.lines) :
                /\ rr.lines[k].raw = RawOf(i)
                /\ rr.lines[k].item_id = <<"b","e","d","_","q","u","e","e","n","_","f","r","a","m","e">>
                /\ rr.lines[k].reason = "family_bed"
    /\ Len(SizeInheritanceEntries) = 1

(***************************************************************************)
(* C9                                                                      *)
(***************************************************************************)
\* matched by none of the box, exact-id, exact-alias and family strategies
Unmatched(i) ==
    /\ WellFormed(i)
    /\ ~MatchedEarly(i)
    /\ _family_bed_mapping(RawOf(i), TokensOf(i), QuantityOf(i), catalog, MajoritySize) = <<>>
    /\ _family_dresser(RawOf(i), TokensOf(i), QuantityOf(i), catalog) = <<>>
    /\ _family_piano(RawOf(i), TokensOf(i), QuantityOf(i), catalog).status # "lines"

\* no alias record scores at or above the confidence floor
BelowFloor(i) ==
    \A r \in 1..Len(catalog.alias_records) :
        _candidate_score(NormOf(i), catalog.alias_records[r]) < op.options.confidence_floor

\* resolved by the backstop: a line with reason category_backstop and
\* confidence 0.5 on the medoid of the inferred category, or on some medoid
\* when that category has none, and a category_backstop assumption for it
ResolvedByBackstop(i) ==
    LET category == infer_category(TokensOf(i))
        medoids == {catalog.category_medoid[m].id : m \in 1..Len(catalog.category_medoid)}
    IN \E k \in 1..Len(rr.lines) :
          /\ rr.lines[k].raw = RawOf(i)
          /\ rr.lines[k].quantity = QuantityOf(i)
          /\ rr.lines[k].reason = "category_backstop"
          /\ rr.lines[k].confidence = 500
          /\ IF HasMedoid(catalog, category)
             THEN rr.lines[k].item_id = MedoidId(catalog, category)
             ELSE rr.lines[k].item_id \in medoids
          /\ \E a \in 1..Len(rr.assumptions) :
                /\ rr.assumptions[a].type = "category_backstop"
                /\ rr.assumptions[a].category = category
                /\ rr.assumptions[a].chosen_id = rr.lines[k].item_id

\* C9: a label matched by none of the box, exact-id, exact-alias and family
\* strategies, with no alias record scoring at or above the confidence
\* floor, resolves with reason category_backstop and confidence 0.5 to the
\* medoid of the category inferred from its tokens (some existing medoid
\* when that category has none), and a category_backstop assumption is
\* recorded.
UnmatchedLabelsResolveByBackstop ==
    Returned => \A i \in EntryAt : (Unmatched(i) /\ BelowFloor(i)) => ResolvedByBackstop(i)

\* C9, the failing input: under the floor 0.99 the label "old piano", on a
\* catalog without pianos, is matched by no strategy and scored by no alias,
\* and the call ends with a TypeError instead of a backstop line
PianoLabelMissesBackstop ==
    /\ Returned
    /\ catalog = OverridesOnlyCatalog
    /\ op.counter = <<[raw |-> <<"o","l","d"," ","p","i","a","n","o">>, quantity |-> 1]>>
    /\ op.options = StrictOptions
    /\ Unmatched(1)
    /\ BelowFloor(1)
    /\ rr.status = "TypeError"

\* C9, apart from the calls that raise: every call that returns has
\* resolved its unmatched labels below the floor by the backstop
ReturnedCallsResolveByBackstop ==
    (Returned /\ rr.status = "ok") =>
        \A i \in EntryAt : (Unmatched(i) /\ BelowFloor(i)) => ResolvedByBackstop(i)

(***************************************************************************)
(* C10                                                                     *)
(***************************************************************************)
\* (raw, item id, quantity, reason) of every line, in order
BoxFacts(lines) ==
    [k \in 1..Len(lines) |->
        <<lines[k].raw, lines[k].item_id, lines[k].quantity, lines[k].reason>>]

\* one line for each of sizes, with the count the allocation gives it
BoxLinesFor(raw, allocation, sizes) ==
    [k \in 1..Len(sizes) |->
        <<raw \o <<" ","(">> \o sizes[k] \o <<")">>, BOX_ID_MAP[sizes[k]], allocation[sizes[k]],
          "box_distribution">>]

BoxAssumptionFor(quantity, policy) ==
    [type |-> "box_distribution",
     inputs |-> [total_boxes |-> quantity, policy |-> policy],
     result |-> allocate_boxes(quantity, policy)]

\* the example: box:10 under 50/35/10/5 gives 5, 3, 1 and 1 cartons
TenBoxesExample ==
    (/\ Returned
     /\ op.counter = <<[raw |-> <<"b","o","x">>, quantity |-> 10]>>
     /\ op.options.box_allocation_policy = <<"5","0","/","3","5","/","1","0","/","5">>) =>
        /\ rr.status = "ok"
        /\ BoxFacts(rr.lines) =
              <<<<<<"b","o","x"," ","(","1",".","5",")">>, <<"c","a","r","t","o","n","_","b","o","x","_","s","m","a","l","l","_","1","_","5">>, 5, "box_distribution">>,
                <<<<"b","o","x"," ","(","3",".","0",")">>, <<"c","a","r","t","o","n","_","b","o","x","_","m","e","d","i","u","m","_","3","_","0">>, 3, "box_distribution">>,
                <<<<"b","o","x"," ","(","4",".","5",")">>, <<"c","a","r","t","o","n","_","b","o","x","_","l","a","r","g","e","_","4","_","5">>, 1, "box_distribution">>,
                <<<<"b","o","x"," ","(","6",".","0",")">>, <<"c","a","r","t","o","n","_","b","o","x","_","x","l","_","6","_","0">>, 1, "box_distribution">>>>

\* C10, as stated: box:10 under the default policy gives 5, 3, 1 and 1
\* cartons, and the box strategy emits one line per size with a non-zero
\* count, with the count allocate_boxes gives the size, plus one
\* box_distribution assumption holding the allocation.
BoxStrategyEmitsNonZeroSizes ==
    /\ TenBoxesExample
    /\ op.name = "_apply_boxes" =>
          LET policy == op.options.box_allocation_policy
              allocation == allocate_boxes(QuantityOf(1), policy)
              sizes == SelectSeq(BoxSizes, LAMBDA size : allocation[size] # 0)
          IN /\ BoxFacts(rr.lines) = BoxLinesFor(RawOf(1), allocation, sizes)
             /\ rr.assumptions = <<BoxAssumptionFor(QuantityOf(1), policy)>>

\* C10, amended: box:10 under the default policy gives 5, 3, 1 and 1
\* cartons; the box strategy emits one line per size with a positive count,
\* with the count allocate_boxes gives the size, plus one box_distribution
\* assumption holding the allocation; and these are the box lines and
\* assumptions of every result resolve_inventory returns.
BoxStrategyEmitsPositiveSizes ==
    /\ TenBoxesExample
    /\ op.name = "_apply_boxes" =>
          LET policy == op.options.box_allocation_policy
              allocation == allocate_boxes(QuantityOf(1), policy)
              sizes == SelectSeq(BoxSizes, LAMBDA size : allocation[size] > 0)
          IN /\ BoxFacts(rr.lines) = BoxLinesFor(RawOf(1), allocation, sizes)
             /\ rr.assumptions = <<BoxAssumptionFor(QuantityOf(1), policy)>>
    /\ (Returned /\ rr.status = "ok") =>
          LET policy == op.options.box_allocation_policy
              box_entries == {i \in EntryAt : WellFormed(i) /\ NormOf(i) = <<"b","o","x">>}
          IN /\ \A i \in box_entries :
                   LET allocation == allocate_boxes(QuantityOf(i), policy)
                       sizes == SelectSeq(BoxSizes, LAMBDA size : allocation[size] > 0)
                       emitted == SelectSeq(rr.lines,
                                      LAMBDA line : StartsWith(line.raw, RawOf(i) \o <<" ","(">>))
                   IN /\ BoxFacts(emitted) = BoxLinesFor(RawOf(i), allocation, sizes)
                      /\ \E a \in 1..Len(rr.assumptions) :
                            rr.assumptions[a] = BoxAssumptionFor(QuantityOf(i), policy)
             /\ Len(SelectSeq(rr.assumptions, LAMBDA a : a.type = "box_distribution"))
                    = Cardinality(box_entries)

\* C10 witness: the ten boxes of the example, resolved into four lines
TenBoxesResolved ==
    /\ Returned
    /\ op.counter = <<[raw |-> <<"b","o","x">>, quantity |-> 10]>>
    /\ op.options = DefaultOptions
    /\ rr.status = "ok"
    /\ Len(rr.lines) = 4
    /\ rr.lines[1].quantity = 5
    /\ rr.assumptions[1].type = "box_distribution"

\* C10, the input of the amendment: under -50/150 the size 1.5 has the
\* count -5 and no line
NegativeCountHasNoLine ==
    /\ op.name = "_apply_boxes"
    /\ op.options.box_allocation_policy = <<"-","5","0","/","1","5","0">>
    /\ QuantityOf(1) = 10
    /\ allocate_boxes(10, <<"-","5","0","/","1","5","0">>)[<<"1",".","5">>] = -5
    /\ Len(rr.lines) = 1
    /\ rr.lines[1].quantity = 15

(***************************************************************************)
(* Specification SpecNormalize: normalize_label applied to a drawn label.  *)
(***************************************************************************)
\* the words and the separators the drawn labels are put together from
LabelWords == {<<"D","i","n","i","n","g">>, <<"d","i","n","i","n","g">>, <<"T","a","b","l","e">>, <<"t","a","b","l","e">>, <<"c","h","a","i","r","s">>, <<"s","m","a","l","l">>, <<"b","o","x">>, <<"B","o","x","e","s">>}

LabelSeparators == {<<" ">>, <<"_">>, <<"-">>, <<" ","-"," ">>}

\* labels of three tokens and more that end with the box keyword
LongLabels == {<<"o","l","d"," ","w","o","o","d","e","n"," ","b","o","x">>, <<"e","x","t","r","a"," ","l","a","r","g","e"," ","b","o","x">>, <<"b","i","g"," ","o","l","d"," ","w","o","o","d","e","n"," ","b","o","x">>, <<"1",".","5"," ","c","u"," ","f","t"," ","b","o","x">>}

\* one word, or two words with a separator between them, or a long label
RawLabels ==
    LabelWords
    \cup {a \o sep \o b : a \in LabelWords, b \in LabelWords, sep \in LabelSeparators}
    \cup LongLabels

InitNormalize ==
    /\ catalog = <<>>
    /\ rules = <<>>
    /\ boxes = <<>>
    /\ rr = <<>>
    /\ prev = <<>>
    /\ quote = <<>>
    /\ ret = <<>>
    /\ store = <<>>
    /\ clock = 0
    /\ packing_catalog = <<>>
    /\ op \in [name : {"call"}, raw : RawLabels]

NormalizeLabel ==
    /\ op.name = "call"
    /\ ret' = normalize_label(op.raw)
    /\ op' = [op EXCEPT !.name = "normalize_label"]
    /\ UNCHANGED <<catalog, rules, boxes, rr, prev, quote, store, clock, packing_catalog>>

\* normalize_label applied to the string it returned, as registration and
\* lookup do with a key that was normalized before; prev keeps the first
\* result
NormalizeAgain ==
    /\ op.name = "normalize_label"
    /\ prev' = ret
    /\ ret' = normalize_label(ret)
    /\ op' = [op EXCEPT !.name = "normalize_again"]
    /\ UNCHANGED <<catalog, rules, boxes, rr, quote, store, clock, packing_catalog>>

NextNormalize == NormalizeLabel \/ NormalizeAgain

SpecNormalize == InitNormalize /\ [][NextNormalize]_vars

\* the three labels of the dining table
DiningTableLabels == {<<"D","i","n","i","n","g","_","T","a","b","l","e">>, <<"d","i","n","i","n","g"," ","t","a","b","l","e">>, <<"t","a","b","l","e"," ","-"," ","d","i","n","i","n","g">>}

\* C11: normalize_label maps "Dining_Table", "dining table" and
\* "table - dining" to one and the same normalized string.
DiningTableLabelsNormalizeAlike ==
    (op.name = "normalize_label" /\ op.raw \in DiningTableLabels) =>
        \A other \in DiningTableLabels : ret = normalize_label(other)

\* C11, the failing input: "table - dining" keeps the order of its tokens
\* and does not normalize to "dining table" as "Dining_Table" does
TableDiningKeepsItsOrder ==
    /\ op.name = "normalize_label"
    /\ op.raw = <<"t","a","b","l","e"," ","-"," ","d","i","n","i","n","g">>
    /\ ret = <<"t","a","b","l","e"," ","d","i","n","i","n","g">>
    /\ normalize_label(<<"D","i","n","i","n","g","_","T","a","b","l","e">>) = <<"d","i","n","i","n","g"," ","t","a","b","l","e">>

(***************************************************************************)
(* Specification SpecRules: rate_card_for and access_for_location applied  *)
(* to a drawn date and a drawn location descriptor.                        *)
(***************************************************************************)
\* date.weekday() of the move date: Monday 0 .. Sunday 6
Weekdays == 0..6

\* a dict with the key absent, or with one of the values under it
Field(key, values) == {<<>>} \cup {key :> v : v \in values}

\* location descriptors as LocationModel admits them and as callers of the
\* rules pass them: any type string, floor >= 0, stairs_flights >= 0
LocationDicts ==
    {t @@ f @@ s @@ e :
        t \in Field("location_type",
                    {<<"d","o","c","k">>, <<"s","t","o","r","a","g","e">>, <<"h","o","u","s","e">>, <<"T","o","w","n","h","o","u","s","e">>, <<"a","p","a","r","t","m","e","n","t">>, <<"C","o","n","d","o">>, <<"o","f","f","i","c","e">>}),
        f \in Field("floor", 0..2),
        s \in Field("stairs_flights", {0, 2}),
        e \in Field("elevator", BOOLEAN)}

InitRules ==
    /\ catalog = <<>>
    /\ boxes = <<>>
    /\ rr = <<>>
    /\ prev = <<>>
    /\ quote = <<>>
    /\ ret = <<>>
    /\ store = <<>>
    /\ clock = 0
    /\ packing_catalog = <<>>
    /\ rules \in RuleSets
    /\ \/ op \in [name : {"date"}, weekday : Weekdays, is_local : BOOLEAN]
       \/ op \in [name : {"location"}, location : LocationDicts]

RateCardFor ==
    /\ op.name = "date"
    /\ ret' = rate_card_for(rules, op.weekday, op.is_local)
    /\ op' = [op EXCEPT !.name = "rate_card_for"]
    /\ UNCHANGED <<catalog, rules, boxes, rr, prev, quote, store, clock, packing_catalog>>

AccessForLocation ==
    /\ op.name = "location"
    /\ ret' = access_for_location(rules, op.location)
    /\ op' = [op EXCEPT !.name = "access_for_location"]
    /\ UNCHANGED <<catalog, rules, boxes, rr, prev, quote, store, clock, packing_catalog>>

NextRules == RateCardFor \/ AccessForLocation

SpecRules == InitRules /\ [][NextRules]_vars

\* the rate cards of the move type of the call
CardsOfMoveType == rules.rate_cards[IF op.is_local THEN "localMoves" ELSE "intrastateMoves"]

\* C12: rate_card_for returns the Friday-to-Saturday card exactly when the
\* move date is a Friday or a Saturday, and the Monday-to-Thursday card for
\* every date from Monday to Thursday, under localMoves when is_local holds
\* and under intrastateMoves otherwise.
FridayAndSaturdayAreWeekendRates ==
    op.name = "rate_card_for" =>
        /\ ret = CardsOfMoveType.ratesFridayToSaturday <=> op.weekday \in {4, 5}
        /\ op.weekday \in 0..3 => ret = CardsOfMoveType.ratesMondayToThursday

\* C12, the failing input: a local move on a Friday is charged the
\* Monday-to-Thursday card
FridayChargedWeekdayRates ==
    /\ op.name = "rate_card_for"
    /\ op.weekday = 4
    /\ op.is_local
    /\ ret = rules.rate_cards.localMoves.ratesMondayToThursday
    /\ ret # rules.rate_cards.localMoves.ratesFridayToSaturday

\* the fields of the descriptor of the call as the table of C13 reads them:
\* the type without regard to letter case, an absent number as 0, an absent
\* elevator as none
TypeIs(types) ==
    /\ "location_type" \in DOMAIN op.location
    /\ Lower(op.location.location_type) \in types

StairsFlights ==
    IF "stairs_flights" \in DOMAIN op.location THEN op.location.stairs_flights ELSE 0

Floor == IF "floor" \in DOMAIN op.location THEN op.location.floor ELSE 0

Elevator == "elevator" \in DOMAIN op.location /\ op.location.elevator

\* the code of the access rule the table of C13 gives
TableCode ==
    IF TypeIs({<<"d","o","c","k">>}) THEN "1E"
    ELSE IF TypeIs({<<"s","t","o","r","a","g","e">>}) THEN "1D"
    ELSE IF TypeIs({<<"h","o","u","s","e">>, <<"t","o","w","n","h","o","u","s","e">>}) /\ StairsFlights > 0 THEN "1A"
    ELSE IF TypeIs({<<"a","p","a","r","t","m","e","n","t">>, <<"c","o","n","d","o">>}) /\ Floor > 1 /\ ~Elevator THEN "1B"
    ELSE IF TypeIs({<<"a","p","a","r","t","m","e","n","t">>, <<"c","o","n","d","o">>}) /\ Floor > 1 /\ Elevator THEN "1A"
    ELSE "1C"

\* C13: access_for_location returns, for every location descriptor, the one
\* of the five access rules that the table gives: dock 1E; storage 1D;
\* house or townhouse 1A with stairs and 1C without; apartment or condo 1B
\* above the first floor without elevator, 1A with one, 1C otherwise; any
\* other or missing type 1C.
AccessRuleFollowsTable ==
    op.name = "access_for_location" =>
        /\ ret \in {rules.access_rules[code] : code \in DOMAIN rules.access_rules}
        /\ ret = rules.access_rules[TableCode]
        /\ ret.code = TableCode

\* C13 witness: a condo on the second floor with an elevator got rule 1A
UpperFloorWithElevatorGets1A ==
    /\ op.name = "access_for_location"
    /\ TypeIs({<<"c","o","n","d","o">>})
    /\ Floor = 2
    /\ Elevator
    /\ ret.code = "1A"

(***************************************************************************)
(* app/security.py: IdempotencyStore, as main.py builds it without a       *)
(* Redis URL.  self._local is a function from key to IdempotencyRecord;    *)
(* get_or_set runs under self._lock, one call at a time.                   *)
(***************************************************************************)
\* ttl_seconds of the store, in ticks of the clock
Ttl == 2

\* hashlib.sha256(body).hexdigest(): a digest that tells the bodies apart
Sha256(body) == <<"sha256", body>>

\* json.dumps of a response: its tuples are written as arrays, like lists
JsonOfPair(pair) == [array |-> pair.items]

json_dumps(response) ==
    [quote_id |-> response.quote_id,
     alternates |-> [i \in 1..Len(response.alternates) |-> JsonOfPair(response.alternates[i])]]

\* json.loads: every array is read as a list
PairOfJson(json) == [type |-> "list", items |-> json.array]

json_loads(response_json) ==
    [quote_id |-> response_json.quote_id,
     alternates |->
        [i \in 1..Len(response_json.alternates) |-> PairOfJson(response_json.alternates[i])]]

\* a store whose records expire one tick early
LiveOneTickLess(local, key, now) ==
    key \in DOMAIN local /\ now - local[key].created_at < Ttl - 1

\* record and now - record.created_at < self._ttl
Live(local, key, now) == key \in DOMAIN local /\ now - local[key].created_at < Ttl

\* get_or_set(key, body, compute) at time now, where compute() returns
\* response or raises (raises = TRUE): the store after the call, what the
\* call returns or raises, and whether it invoked compute
get_or_set(local, key, body, now, response, raises) ==
    IF key = <<>>
    THEN [local |-> local, computed |-> TRUE,
          status |-> IF raises THEN "raised" ELSE "ok",
          value |-> IF raises THEN <<>> ELSE response]
    ELSE IF Live(local, key, now)
         THEN IF local[key].body_hash # Sha256(body)
              THEN [local |-> local, computed |-> FALSE, status |-> "409", value |-> <<>>]
              ELSE [local |-> local, computed |-> FALSE, status |-> "ok",
                    value |-> json_loads(local[key].response_json)]
    ELSE IF raises
         THEN [local |-> local, computed |-> TRUE, status |-> "raised", value |-> <<>>]
    ELSE [local |-> (key :> [body_hash |-> Sha256(body),
                              response_json |-> json_dumps(response),
                              created_at |-> now]) @@ local,
          computed |-> TRUE, status |-> "ok", value |-> response]

(***************************************************************************)
(* Specification SpecIdempotency: calls of get_or_set as time passes.      *)
(***************************************************************************)
\* the last tick of the clock, and the number of calls made
MaxClock == 3
MaxCalls == 3

\* Idempotency-Key headers: none (None and "" alike) and two keys
IdempotencyKeys == {<<>>, <<"a","b","c","1","2","3">>, <<"x","y","z">>}

\* request bodies
Bodies == {<<"i","t","e","m","s","=","s","o","f","a">>, <<"i","t","e","m","s","=","s","a","f","e">>}

\* what compute() can return: the response payload with its quote id and
\* the (id, score) tuples of its assumptions
ResponsePayloads ==
    {[quote_id |-> 1, alternates |-> <<>>],
     [quote_id |-> 2,
      alternates |-> <<[type |-> "tuple", items |-> <<<<"s","o","f","a","_","t","h","r","e","e","_","s","e","a","t">>, 720>>]>>]}

\* for every key and body: the response stored by the last call that stored
\* one, as the store returns it, and the time it was stored at
NoStored == [kb \in (IdempotencyKeys \ {<<>>}) \X Bodies |-> <<>>]

InitIdempotency ==
    /\ catalog = <<>>
    /\ rules = <<>>
    /\ boxes = <<>>
    /\ rr = <<>>
    /\ quote = <<>>
    /\ ret = <<>>
    /\ store = <<>>
    /\ clock = 0
    /\ packing_catalog = <<>>
    /\ prev = NoStored
    /\ op = [name |-> "none", seq |-> 0]

\* prev after a call: a call that wrote a record is remembered under its
\* key and body
Remembered(key, body, now, outcome) ==
    IF key # <<>> /\ outcome.local # store
    THEN [prev EXCEPT ![<<key, body>>] =
            [response |-> json_loads(json_dumps(outcome.value)), at |-> now]]
    ELSE prev

Called(key, body, outcome) ==
    /\ store' = outcome.local
    /\ ret' = [status |-> outcome.status, value |-> outcome.value]
    /\ op' = [name |-> "get_or_set", seq |-> op.seq + 1, key |-> key, body |-> body,
              at |-> clock, computed |-> outcome.computed]
    /\ prev' = Remembered(key, body, clock, outcome)

GetOrSet ==
    /\ op.seq < MaxCalls
    /\ \E key \in IdempotencyKeys, body \in Bodies, response \in ResponsePayloads,
          raises \in BOOLEAN :
            Called(key, body, get_or_set(store, key, body, clock, response, raises))
    /\ UNCHANGED <<catalog, rules, boxes, rr, quote, clock, packing_catalog>>

\* time.time() moves on
Tick ==
    /\ clock < MaxClock
    /\ clock' = clock + 1
    /\ UNCHANGED <<catalog, rules, op, boxes, rr, prev, quote, ret, store, packing_catalog>>

NextIdempotency == GetOrSet \/ Tick

SpecIdempotency == InitIdempotency /\ [][NextIdempotency]_vars

JsonChoices ==
    {[id |-> <<"l","o","v","e","s","e","a","t">>, name |-> <<"L","o","v","e","s","e","a","t">>, category |-> "sofa",
      weight_lbs |-> 120, aliases |-> <<<<"c","o","u","c","h">>, <<"S","o","f","a">>>>],
     [id |-> <<"m","i","n","i","_","f","r","i","d","g","e">>, name |-> <<"F","r","i","d","g","e">>, category |-> "appliance",
      weight_lbs |-> 60, aliases |-> <<<<>>, <<"f","r","i","d","g","e"," ","m","i","n","i">>>>],
     [id |-> <<"d","i","n","i","n","g","_","t","a","b","l","e","_","m","e","d","i","u","m">>, name |-> <<"D","i","n","i","n","g"," ","T","a","b","l","e"," ","M","e","d","i","u","m">>, category |-> "table",
      weight_lbs |-> 150, aliases |-> <<<<"d","i","n","i","n","g"," ","t","a","b","l","e">>>>],
     [id |-> <<"w","a","r","d","r","o","b","e","_","b","o","x">>, name |-> <<"A","r","m","o","i","r","e"," ","W","a","r","d","r","o","b","e">>, category |-> "wardrobe",
      weight_lbs |-> 30, aliases |-> <<<<"w","a","r","d","r","o","b","e"," ","a","r","m","o","i","r","e">>>>]}

\* the files of at most MaxJsonItems items
MaxJsonItems == 2

JsonFiles ==
    {file \in UNION {[1..n -> JsonChoices] : n \in 0..MaxJsonItems} :
        \A i, j \in 1..Len(file) : file[i] = file[j] => i = j}

\* the calls of _register_alias one iteration of the loop over raw_items
\* makes: the name, the aliases, the variants of the name
CallsWith(item, aliases, priority) ==
    [i \in 1..Len(aliases) |-> [alias |-> aliases[i], item |-> item, priority |-> priority]]

CallsOfItem(item) ==
    CallsWith(item, <<item.name>>, 0)
        \o CallsWith(item, item.aliases, 1)
        \o CallsWith(item, _basic_alias_variants(item.name), 2)

\* the AliasRecord a call builds
RecordOf(call, normalized) ==
    [item_id |-> call.item.id, alias |-> call.alias, normalized |-> normalized,
     priority |-> call.priority]

InitCatalog ==
    /\ catalog = [items |-> <<>>, alias_records |-> <<>>]
    /\ \E json_items \in JsonFiles :
          op = [name |-> "__init__", json_items |-> json_items,
                raw_items |-> json_items \o _MANUAL_OVERRIDES,
                calls |-> <<>>, manual |-> _MANUAL_ALIASES]
    /\ prev = <<>>
    /\ rules = load_rules(RateCards)
    /\ boxes = NoBoxes
    /\ rr = NoOutcome
    /\ quote = NoQuote
    /\ ret = <<>> /\ store = <<>> /\ clock = 0
    /\ packing_catalog = <<>>

\* for obj in raw_items: self.items[item["id"]] = item, its calls of
\* _register_alias next
StoreItem ==
    /\ op.name = "__init__" /\ op.calls = <<>> /\ op.raw_items # <<>>
    /\ catalog' = [catalog EXCEPT !.items = Put(@, IdOf, Head(op.raw_items))]
    /\ op' = [op EXCEPT !.raw_items = Tail(@), !.calls = CallsOfItem(Head(op.raw_items))]
    /\ UNCHANGED <<rules, boxes, rr, prev, quote, ret, store, clock, packing_catalog>>

\* self._register_alias(alias, item, priority=priority)
RegisterAlias ==
    /\ op.name = "__init__" /\ op.calls # <<>>
    /\ catalog' = [catalog EXCEPT !.alias_records =
            _register_alias(@, Head(op.calls).alias, Head(op.calls).item,
                            Head(op.calls).priority)]
    /\ prev' = Append(prev, RecordOf(Head(op.calls), normalize_label(Head(op.calls).alias)))
    /\ op' = [op EXCEPT !.calls = Tail(@)]
    /\ UNCHANGED <<rules, boxes, rr, quote, ret, store, clock, packing_catalog>>

\* the target of a manual alias at position at of self.items
ManualCalls(entry, at) ==
    IF at = 0 THEN <<>> ELSE CallsWith(catalog.items[at], <<entry[1]>>, 0)

\* for alias, target_id in self._MANUAL_ALIASES.items(): item =
\* self.items.get(target_id), skipped when there is none
ManualAlias ==
    /\ op.name = "__init__" /\ op.calls = <<>> /\ op.raw_items = <<>> /\ op.manual # <<>>
    /\ op' = [op EXCEPT !.manual = Tail(@),
                        !.calls = ManualCalls(Head(op.manual),
                                              IndexOf(catalog.items, IdOf, Head(op.manual)[2]))]
    /\ UNCHANGED <<catalog, rules, boxes, rr, prev, quote, ret, store, clock, packing_catalog>>

\* the end of __init__: _alias_record_list and category_medoid
Constructed ==
    /\ op.name = "__init__" /\ op.calls = <<>> /\ op.raw_items = <<>> /\ op.manual = <<>>
    /\ catalog' = CatalogOf(catalog)
    /\ op' = [op EXCEPT !.name = "constructed"]
    /\ UNCHANGED <<rules, boxes, rr, prev, quote, ret, store, clock, packing_catalog>>

NextCatalog == StoreItem \/ RegisterAlias \/ ManualAlias \/ Constructed

SpecCatalog == InitCatalog /\ [][NextCatalog]_vars

\* the registrations made under a key, as positions of prev
RegisteredUnder(normalized) == {k \in 1..Len(prev) : prev[k].normalized = normalized}

\* the first registration of the lowest priority under a key
FirstOfLowestPriority(ks) ==
    CHOOSE k \in ks : \A j \in ks :
        prev[k].priority < prev[j].priority \/ (prev[k].priority = prev[j].priority /\ k <= j)

\* C15: the catalog the steps built is the catalog __init__ builds, and its
\* alias record under every normalized key that was registered is the
\* registration of the lowest priority under that key, the first made among
\* those of that priority; no record stands under a key never registered
StoredAliasIsFirstOfLowestPriority ==
    op.name = "constructed" =>
        /\ catalog = Catalog(op.json_items)
        /\ \A k \in 1..Len(prev) :
              prev[k].normalized # <<>> =>
                  /\ HasAlias(catalog, prev[k].normalized)
                  /\ GetAliasRecord(catalog, prev[k].normalized)
                        = prev[FirstOfLowestPriority(RegisteredUnder(prev[k].normalized))]
        /\ \A i \in 1..Len(catalog.alias_records) :
              RegisteredUnder(catalog.alias_records[i].normalized) # {}

\* a catalog built from a file whose loveseat is called a couch: the manual
\* alias of priority 0 took the key from the alias of priority 1, and the
\* manual alias "sofa" left the key to the name of the override, of the
\* same priority and registered before it
ManualAliasTookCouchFromLoveseat ==
    /\ op.name = "constructed"
    /\ \E k \in 1..Len(prev) :
          /\ prev[k].normalized = <<"c","o","u","c","h">> /\ prev[k].item_id = <<"l","o","v","e","s","e","a","t">>
          /\ prev[k].priority = 1
          /\ \A j \in RegisteredUnder(<<"c","o","u","c","h">>) : k <= j
    /\ GetAliasRecord(catalog, <<"c","o","u","c","h">>).item_id = <<"s","o","f","a","_","t","h","r","e","e","_","s","e","a","t">>
    /\ GetAliasRecord(catalog, <<"c","o","u","c","h">>).priority = 0
    /\ GetAliasRecord(catalog, <<"s","o","f","a">>).alias = <<"S","o","f","a">>
    /\ GetAliasRecord(catalog, <<"s","o","f","a">>).item_id = <<"s","o","f","a","_","t","h","r","e","e","_","s","e","a","t">>
    /\ \E j \in RegisteredUnder(<<"s","o","f","a">>) : prev[j].alias = <<"s","o","f","a">> /\ prev[j].priority = 0
(***************************************************************************)
(* C16: the order of the strategies, on SpecResolve.                       *)
(***************************************************************************)
\* the reason code of the first strategy, in the order of lines 493-611,
\* whose condition holds for entry i: the box keyword, an item id, a
\* registered alias, a bed line, a dresser line, a piano token the piano
\* rule acts on, a candidate at or above the floor, else the backstop
FirstStrategy(i) ==
    IF NormOf(i) = <<"b","o","x">> THEN "box_distribution"
    ELSE IF HasItem(catalog, RawOf(i)) THEN "exact_id"
    ELSE IF HasAlias(catalog, NormOf(i)) THEN "alias_exact"
    ELSE IF _family_bed_mapping(RawOf(i), TokensOf(i), QuantityOf(i), catalog, MajoritySize) # <<>>
         THEN "family_bed"
    ELSE IF _family_dresser(RawOf(i), TokensOf(i), QuantityOf(i), catalog) # <<>>
         THEN "family_dresser"
    ELSE IF _family_piano(RawOf(i), TokensOf(i), QuantityOf(i), catalog).status # "none"
         THEN "family_piano"
    ELSE IF Candidates(NormOf(i), TokensOf(i), catalog, op.options) # <<>> THEN "fuzzy_match"
    ELSE "category_backstop"

\* the resolver a best_match assumption names for a reason code
ResolverOf(reason) == IF reason = "fuzzy_match" THEN "fuzzy" ELSE reason

\* the assumptions of a type
AssumptionsOfType(type) == {a \in 1..Len(rr.assumptions) : rr.assumptions[a].type = type}

\* the well-formed entries whose first strategy has this reason code
EntriesOfStrategy(reason) == {i \in EntryAt : WellFormed(i) /\ FirstStrategy(i) = reason}

\* the best_match assumptions of entry i
BestMatchesOf(i) ==
    {a \in AssumptionsOfType("best_match") :
        \/ rr.assumptions[a].raw = RawOf(i)
        \/ StartsWith(rr.assumptions[a].raw, RawOf(i) \o <<" ","(">>)}

\* C16: every line emitted for a label carries the reason code of the
\* first strategy, in the order box keyword, exact id, exact alias, bed,
\* dresser, piano, fuzzy, backstop, whose condition holds for the label, and
\* no other strategy has left a line or an assumption for it: its
\* best_match assumptions name that strategy, the fuzzy strategy leaves
\* one line and one of them, and there is one box_distribution assumption
\* per box label and one category_backstop assumption per label that went
\* to the backstop.  A call that raises leaves no line and no assumption.
FirstMatchingStrategyWins ==
    Returned =>
        IF rr.status # "ok" THEN rr.lines = <<>> /\ rr.assumptions = <<>>
        ELSE /\ \A i \in EntryAt : WellFormed(i) =>
                   /\ LinesOf(i) # {}
                   /\ \A k \in LinesOf(i) : rr.lines[k].reason = FirstStrategy(i)
                   /\ \A a \in BestMatchesOf(i) :
                         rr.assumptions[a].resolver = ResolverOf(FirstStrategy(i))
                   /\ FirstStrategy(i) \in {"exact_id", "alias_exact", "family_bed",
                                            "family_dresser", "fuzzy_match", "category_backstop"}
                         => Cardinality(LinesOf(i)) = 1 /\ Cardinality(BestMatchesOf(i)) = 1
             /\ Cardinality(AssumptionsOfType("box_distribution"))
                    = Cardinality(EntriesOfStrategy("box_distribution"))
             /\ Cardinality(AssumptionsOfType("category_backstop"))
                    = Cardinality(EntriesOfStrategy("category_backstop"))
             /\ \A k \in 1..Len(rr.lines) : \E i \in EntryAt : WellFormed(i) /\ k \in LinesOf(i)

\* C16 witness: a label that is an item id and whose normalized form is a
\* registered alias resolved as the id, next to a label the dresser rule
\* took although aliases score above the floor for it
IdBeatsAliasAndDresserBeatsFuzzy ==
    /\ Returned
    /\ rr.status = "ok"
    /\ \E i \in EntryAt :
          /\ WellFormed(i)
          /\ HasItem(catalog, RawOf(i))
          /\ HasAlias(catalog, NormOf(i))
          /\ \A k \in LinesOf(i) : rr.lines[k].reason = "exact_id"
          /\ Cardinality(LinesOf(i)) = 1
    /\ \E j \in EntryAt :
          /\ WellFormed(j)
          /\ FirstStrategy(j) = "family_dresser"
          /\ Candidates(NormOf(j), TokensOf(j), catalog, op.options) # <<>>
          /\ \A k \in LinesOf(j) : rr.lines[k].reason = "family_dresser"
          /\ BestMatchesOf(j) # {}
          /\ \A a \in BestMatchesOf(j) : rr.assumptions[a].resolver = "family_dresser"
(***************************************************************************)
(* Specification SpecMatch: calls of Catalog.match on the shared catalog.  *)
(***************************************************************************)
\* labels that are registered aliases in some spelling, labels one or two
\* letters away from an alias, single words several aliases hold, and a
\* label without letters
MatchLabels ==
    {<<"d","i","n","i","n","g","_","t","a","b","l","e">>, <<"d","i","n","i","n","g"," ","t","a","b","l","e">>, <<"t","a","b","l","e"," ","-"," ","d","i","n","i","n","g">>, <<"S","o","f","a">>, <<"s","o","f","a","s">>, <<"d","r","e","s","s","e","r"," ","t","a","l","l">>,
     <<"f","r","i","d","g","e","e">>, <<"c","o","u","c","h","h">>, <<"a","r","m","o","i","r","e"," ","w","a","r","d","r","o","b">>, <<"r","e","f","r","i","g","e","r","a","t","o","r"," ","s","t","a","n","d","a","r","d","d">>, <<"b","o","x"," ","3">>, <<"l","a","r","g","e">>,
     <<"p","i","a","n","o">>, <<"r","u","g">>, <<"k","i","n","g">>, <<"b","e","d"," ","k","i","n","g">>, <<"m","e","d","i","u","m">>, <<"x","l">>, <<"-","-">>, <<>>}

\* the default threshold, the one furniture_catalog.py passes, a full match
\* and a lenient one
DefaultThreshold == 920
Thresholds == {600, 850, DefaultThreshold, 1000}

InitMatch ==
    /\ catalog \in Catalogs
    /\ op \in [name : {"call"}, raw : MatchLabels, similarity_threshold : Thresholds]
    /\ ret = NoMatch
    /\ rules = <<>>
    /\ boxes = <<>>
    /\ rr = <<>>
    /\ prev = <<>>
    /\ quote = <<>>
    /\ store = <<>> /\ clock = 0
    /\ packing_catalog = <<>>

\* catalog.match(raw, similarity_threshold=similarity_threshold)
Match ==
    /\ op.name = "call"
    /\ ret' = match(catalog, op.raw, op.similarity_threshold)
    /\ op' = [op EXCEPT !.name = "match"]
    /\ UNCHANGED <<catalog, rules, boxes, rr, prev, quote, store, clock, packing_catalog>>

NextMatch == Match

SpecMatch == InitMatch /\ [][NextMatch]_vars

\* the trigram cosine scores of the alias records against the label of the
\* call
ScoresOfCall ==
    MatchScores(catalog, trigram_vector(normalize_label(op.raw)))

\* the records that score the maximum, as positions in insertion order
AtMaximum(scores) ==
    {i \in 1..Len(scores) : \A j \in 1..Len(scores) :
        scores[j].dot * scores[j].dot * scores[i].sq_b
            <= scores[i].dot * scores[i].dot * scores[j].sq_b}

Earliest(positions) == CHOOSE i \in positions : \A j \in positions : i <= j

\* the answer for a label that is no registered alias: the earliest record
\* at the maximum when the maximum reaches the threshold
ApproximateAnswer(scores, first) ==
    IF ReachesThreshold(scores[first], op.similarity_threshold)
    THEN /\ ret.found
         /\ ret.approximate
         /\ ret.item_id = catalog.alias_records[first].item_id
         /\ ret.alias = catalog.alias_records[first].alias
         /\ ret.normalized = catalog.alias_records[first].normalized
         /\ 1000000 * scores[first].dot * scores[first].dot
                >= ret.similarity * ret.similarity * scores[first].sq_a * scores[first].sq_b
         /\ ret.similarity >= op.similarity_threshold
    ELSE ret = NoMatch

\* C17: match returns similarity 1.0 and approximate = false for a label
\* whose normalized form is a registered alias; for any other label it
\* returns the alias record of the maximum trigram cosine, the earliest
\* inserted of the records at the maximum, flagged approximate, exactly
\* when the maximum reaches the threshold; it returns nothing for a label
\* whose normalized form is empty or whose maximum is below the threshold
MatchReturnsExactOrBestAboveThreshold ==
    op.name = "match" =>
        IF normalize_label(op.raw) = <<>> THEN ret = NoMatch
        ELSE IF HasAlias(catalog, normalize_label(op.raw))
             THEN /\ ret.found
                  /\ ret.similarity = 1000
                  /\ ~ret.approximate
                  /\ ret.normalized = normalize_label(op.raw)
                  /\ ret.item_id = GetAliasRecord(catalog, normalize_label(op.raw)).item_id
        ELSE ApproximateAnswer(Listed(ScoresOfCall), Earliest(AtMaximum(Listed(ScoresOfCall))))

\* C17 witness: "piano" is no alias and four records of two items score
\* the same maximum for it, above the lenient threshold: the answer is the
\* first of them, the name of the grand piano
PianoMatchedToEarliestAtMaximum ==
    /\ op.name = "match"
    /\ op.raw = <<"p","i","a","n","o">>
    /\ catalog = FullCatalog
    /\ Cardinality(AtMaximum(Listed(ScoresOfCall))) = 4
    /\ Cardinality({catalog.alias_records[i].item_id : i \in AtMaximum(Listed(ScoresOfCall))}) = 2
    /\ ret.found
    /\ ret.approximate
    /\ ret.item_id = <<"p","i","a","n","o","_","g","r","a","n","d">>
    /\ ret.alias = <<"P","i","a","n","o"," ","G","r","a","n","d">>
    /\ ret.similarity < 1000
(***************************************************************************)
(* Specification SpecShared: requests that resolve inventories and price   *)
(* moves on the structures built at startup.  A resolve call and an        *)
(* optimize call may be in flight together and end in either order.  prev  *)
(* keeps the structures as startup built them.                             *)
(***************************************************************************)
\* a resolver that remembers the first label of the counter as an alias
CatalogLearningLabels(cat, counter, options) ==
    IF counter = <<>> \/ cat.items = <<>> THEN cat
    ELSE [cat EXCEPT !.alias_records = _register_alias(@, counter[1].raw, cat.items[1], 0)]

\* what resolve_inventory leaves of the catalog it is handed: it calls
\* catalog.get, alias_to_id.get, get_alias_record and alias_records() and
\* reads category_medoid, and assigns to none of them
CatalogAfterResolve(cat, counter, options) == cat

\* what optimize leaves of ctx.rules: it reads the limits, the rates and
\* the rate card, and assigns to none of them
RulesAfterOptimize(r, ctx) == r

\* what optimize leaves of ctx.packing_catalog: compute_packing calls get
PackingAfterOptimize(pc, ctx) == pc

NoRequest == [name |-> "none"]

\* the inventories and the moves of the requests
SharedResolves ==
    [name : {"resolve"}, counter : HistoryInventories, options : {DefaultOptions}]

SharedMoves == {<<1, Services>>} \cup {<<20, {svc \in Services : svc.service # "none"}>>}

SharedContexts(r) ==
    UNION {{QuoteContext(r, move[1], 1, [location_type |-> <<"h","o","u","s","e">>, floor |-> 1], <<2, 10>>, svc) :
                svc \in move[2]} : move \in SharedMoves}

InitShared ==
    /\ catalog \in Catalogs
    /\ rules \in RuleSets
    /\ packing_catalog = PackingSkus
    /\ prev = [catalog |-> catalog, rules |-> rules, packing_catalog |-> packing_catalog]
    /\ op = [resolve |-> NoRequest, optimize |-> NoRequest]
    /\ rr = NoOutcome
    /\ quote = NoQuote
    /\ boxes = <<>>
    /\ ret = <<>>
    /\ store = <<>>
    /\ clock = 0

\* a request with an inventory arrives
RequestResolve ==
    /\ op.resolve = NoRequest
    /\ \E request \in SharedResolves : op' = [op EXCEPT !.resolve = request]
    /\ UNCHANGED <<catalog, rules, boxes, rr, prev, quote, ret, store, clock, packing_catalog>>

\* a request with a move to price arrives
RequestOptimize ==
    /\ op.optimize = NoRequest
    /\ \E ctx \in SharedContexts(rules) :
          op' = [op EXCEPT !.optimize = [name |-> "optimize", ctx |-> ctx]]
    /\ UNCHANGED <<catalog, rules, boxes, rr, prev, quote, ret, store, clock, packing_catalog>>

\* resolve_inventory(counter, catalog, options) on the shared catalog
ResolveOnShared ==
    /\ op.resolve # NoRequest
    /\ rr' = resolve_inventory(op.resolve.counter, catalog, op.resolve.options)
    /\ catalog' = CatalogAfterResolve(catalog, op.resolve.counter, op.resolve.options)
    /\ op' = [op EXCEPT !.resolve = NoRequest]
    /\ UNCHANGED <<rules, boxes, prev, quote, ret, store, clock, packing_catalog>>

\* optimize(ctx) on the shared rules and packing catalog
OptimizeOnShared ==
    /\ op.optimize # NoRequest
    /\ quote' = optimize(op.optimize.ctx, rules, packing_catalog)
    /\ rules' = RulesAfterOptimize(rules, op.optimize.ctx)
    /\ packing_catalog' = PackingAfterOptimize(packing_catalog, op.optimize.ctx)
    /\ op' = [op EXCEPT !.optimize = NoRequest]
    /\ UNCHANGED <<catalog, boxes, rr, prev, ret, store, clock>>

NextShared == RequestResolve \/ RequestOptimize \/ ResolveOnShared \/ OptimizeOnShared

SpecShared == InitShared /\ [][NextShared]_vars

SmallestCandidate ==
    evaluate_candidate(MinMoversForWeight(rules, total_weight(op.ctx)),
                       MinTrucks(rules, total_weight(op.ctx)), op.ctx, rules, PackingSkus)

\* the rate card of the move
RateCardOfMove == rate_card_for(rules, op.ctx.weekday, op.ctx.distance_miles < 30)

\* the range of mover counts is not empty, the hours of its smallest count
\* do not exceed the minimum, and both hourly rates are positive
MinimumHoursBilled ==
    /\ MinMoversForWeight(rules, total_weight(op.ctx)) <= rules.max_movers
    /\ ~RLess(rules.min_billable_hours, TotalHoursOf(SmallestCandidate))
    /\ RateCardOfMove.mover_rate_per_hour > 0
    /\ RateCardOfMove.truck_rate_per_hour > 0

\* C19: when the total hours of the smallest mover count of the searched
\* range do not exceed min_billable_hours and the mover and truck hourly
\* rates are positive, optimize returns the quote of the smallest mover
\* count and the smallest truck count of the range
MinimumHoursQuoteHasSmallestCrew ==
    (op.name = "optimize" /\ MinimumHoursBilled) =>
        /\ quote.status = "ok"
        /\ quote.best = SmallestCandidate
        /\ quote.best.movers = MinMoversForWeight(rules, total_weight(op.ctx))
        /\ quote.best.trucks = MinTrucks(rules, total_weight(op.ctx))

\* C19 witness: a light move under the rules of load_rules, fifteen
\* candidates all billed the minimum of three hours, quoted with two movers
\* and one truck
LightMoveQuotedWithTwoMoversOneTruck ==
    /\ op.name = "optimize"
    /\ MinimumHoursBilled
    /\ rules = load_rules(RateCards)
    /\ quote.status = "ok"
    /\ quote.candidate_count = 15
    /\ \A pair \in SearchedPairs :
          evaluate_candidate(pair[1], pair[2], op.ctx, rules, PackingSkus).billable_hours
              = rules.min_billable_hours
    /\ quote.best.movers = 2
    /\ quote.best.trucks = 1
(***************************************************************************)
(* C20, on SpecBoxes.                                                      *)
(***************************************************************************)
\* the ratios of the call, the floors of its targets and their fractional
\* remainders in hundredths
RatiosOfCall == _parse_box_policy(op.policy)
FloorOfCall(idx) == FloorsOf(op.total, RatiosOfCall)[idx]
FracOfCall(idx) == FracsOf(op.total, RatiosOfCall)[idx]

\* the units size idx received on top of its floor
UnitsOnTop(idx) == boxes[BoxSizes[idx]] - FloorOfCall(idx)

\* C20: every size gets the floor of its target and at most one of the
\* remaining units; the units go to the sizes in order of largest
\* fractional remainder, and of two sizes with equal remainders the one
\* with the smaller index is served first
RemainderGoesToSmallerIndexOnTies ==
    (op.name = "allocate_boxes" /\ op.total > 0) =>
        /\ \A idx \in 1..Len(BoxSizes) : UnitsOnTop(idx) \in {0, 1}
        /\ \A i, j \in 1..Len(BoxSizes) :
              (/\ \/ FracOfCall(i) > FracOfCall(j)
                  \/ FracOfCall(i) = FracOfCall(j) /\ i < j
               /\ UnitsOnTop(j) = 1) => UnitsOnTop(i) = 1

\* C20 as the code has it: every size gets the floor of its target and at
\* most one of the remaining units; the units go to the sizes in order of
\* largest fractional remainder, and of two sizes with equal remainders the
\* one with the larger index is served first
RemainderGoesToLargerIndexOnTies ==
    (op.name = "allocate_boxes" /\ op.total > 0) =>
        /\ \A idx \in 1..Len(BoxSizes) : UnitsOnTop(idx) \in {0, 1}
        /\ \A i, j \in 1..Len(BoxSizes) :
              (/\ \/ FracOfCall(i) > FracOfCall(j)
                  \/ FracOfCall(i) = FracOfCall(j) /\ i > j
               /\ UnitsOnTop(j) = 1) => UnitsOnTop(i) = 1

\* C20 witness: ten boxes under 50/35/10/5 leave one unit for the sizes 3.0
\* and 6.0, both half a box short, and the unit goes to size 6.0
TenBoxesTieGoesToLargerSize ==
    /\ op.name = "allocate_boxes"
    /\ op.total = 10
    /\ op.policy = <<"5","0","/","3","5","/","1","0","/","5">>
    /\ op.total - SumSeq([idx \in 1..Len(BoxSizes) |-> FloorOfCall(idx)]) = 1
    /\ FracOfCall(2) = 50 /\ FracOfCall(4) = 50
    /\ FracOfCall(1) = 0 /\ FracOfCall(3) = 0
    /\ UnitsOnTop(2) = 0
    /\ UnitsOnTop(4) = 1
    /\ boxes = (<<"1",".","5">> :> 5) @@ (<<"3",".","0">> :> 3) @@ (<<"4",".","5">> :> 1) @@ (<<"6",".","0">> :> 1)
(***************************************************************************)
(* C21                                                                     *)
(***************************************************************************)
\* entry i is handed to _family_piano with the token piano: no strategy
\* before the piano rule matched it
ReachesPianoRule(i) ==
    /\ WellFormed(i)
    /\ ~MatchedEarly(i)
    /\ _family_bed_mapping(RawOf(i), TokensOf(i), QuantityOf(i), catalog, MajoritySize) = <<>>
    /\ _family_dresser(RawOf(i), TokensOf(i), QuantityOf(i), catalog) = <<>>
    /\ <<"p","i","a","n","o">> \in Range(TokensOf(i))

StocksPianos ==
    /\ HasItem(catalog, <<"p","i","a","n","o","_","g","r","a","n","d">>)
    /\ HasItem(catalog, <<"p","i","a","n","o","_","u","p","r","i","g","h","t">>)
    /\ HasItem(catalog, <<"b","e","n","c","h","_","p","i","a","n","o">>)

\* the piano line of entry i: the grand piano at 0.9 with the token grand,
\* else the upright piano at 0.85
HasPianoLine(i) ==
    \E k \in 1..Len(rr.lines) :
        /\ rr.lines[k].raw = RawOf(i)
        /\ rr.lines[k].reason = "family_piano"
        /\ rr.lines[k].quantity = QuantityOf(i)
        /\ IF <<"g","r","a","n","d">> \in Range(TokensOf(i))
           THEN rr.lines[k].item_id = <<"p","i","a","n","o","_","g","r","a","n","d">> /\ rr.lines[k].confidence = 900
           ELSE rr.lines[k].item_id = <<"p","i","a","n","o","_","u","p","r","i","g","h","t">> /\ rr.lines[k].confidence = 850

\* the bench line of entry i and its own assumption entry
HasBenchLine(i) ==
    /\ \E k \in 1..Len(rr.lines) :
          /\ rr.lines[k].raw = RawOf(i) \o <<" ","(","b","e","n","c","h",")">>
          /\ rr.lines[k].reason = "family_piano"
          /\ rr.lines[k].item_id = <<"b","e","n","c","h","_","p","i","a","n","o">>
          /\ rr.lines[k].quantity = QuantityOf(i)
          /\ rr.lines[k].confidence = 800
    /\ \E a \in 1..Len(rr.assumptions) :
          /\ rr.assumptions[a].type = "best_match"
          /\ rr.assumptions[a].raw = RawOf(i) \o <<" ","(","b","e","n","c","h",")">>
          /\ rr.assumptions[a].chosen_id = <<"b","e","n","c","h","_","p","i","a","n","o">>
          /\ rr.assumptions[a].confidence = 800
          /\ rr.assumptions[a].resolver = "family_piano"

ResolvedAsPiano(i) ==
    /\ rr.status = "ok"
    /\ HasPianoLine(i)
    /\ <<"b","e","n","c","h">> \in Range(TokensOf(i)) => HasBenchLine(i)

\* C21: on a catalog that stocks the pianos and the bench, a label that
\* contains the token piano and reaches the piano family rule resolves with
\* reason family_piano to the grand piano with confidence 0.9 when it has
\* the token grand, and otherwise to the upright piano with confidence 0.85;
\* with the token bench a second line for the piano bench is emitted with
\* the same quantity, confidence 0.8, the raw label suffixed ' (bench)' and
\* its own assumption entry.
PianoLabelsResolveByFamilyRule ==
    (Returned /\ StocksPianos) =>
        \A i \in EntryAt : ReachesPianoRule(i) => ResolvedAsPiano(i)

\* C21, the failing input: the label "spinet piano bench" alone reaches the
\* piano rule on a catalog that stocks pianos and benches, and the call ends
\* with a TypeError and no line
SpinetPianoRaisesTypeError ==
    /\ Returned
    /\ StocksPianos
    /\ op.counter = <<[raw |-> <<"s","p","i","n","e","t"," ","p","i","a","n","o"," ","b","e","n","c","h">>, quantity |-> 1]>>
    /\ op.options = DefaultOptions
    /\ ReachesPianoRule(1)
    /\ <<"g","r","a","n","d">> \notin Range(TokensOf(1))
    /\ rr.status = "TypeError"
    /\ rr.lines = <<>>

\* C21, apart from the calls that raise: every call that returns has
\* resolved its piano labels as the claim says
ReturnedCallsResolvePianos ==
    (Returned /\ StocksPianos /\ rr.status = "ok") =>
        \A i \in EntryAt : ReachesPianoRule(i) => ResolvedAsPiano(i)

\* a grand piano with its bench, resolved into two lines
GrandPianoResolvedWithBench ==
    /\ Returned
    /\ StocksPianos
    /\ op.counter = <<[raw |-> <<"g","r","a","n","d"," ","p","i","a","n","o"," ","b","e","n","c","h">>, quantity |-> MaxQty]>>
    /\ ReachesPianoRule(1)
    /\ ResolvedAsPiano(1)
    /\ Len(rr.lines) = 2

(***************************************************************************)
(* C22                                                                     *)
(***************************************************************************)
\* the bed rule is asked about entry i and the catalog holds none of the
\* ids BED_SIZE_TARGETS gives its accessory tokens for the majority size
BedTargetMissing(i) ==
    /\ WellFormed(i)
    /\ ~MatchedEarly(i)
    /\ MajoritySize # <<>>
    /\ AccessoryTargets(i) # <<>>
    /\ StockedTargets(i) = <<>>

\* the dresser rule is asked about entry i and the catalog does not hold
\* the id DRESSER_RULES gives one of its tokens
DresserTargetMissing(i) ==
    /\ WellFormed(i)
    /\ ~MatchedEarly(i)
    /\ _family_bed_mapping(RawOf(i), TokensOf(i), QuantityOf(i), catalog, MajoritySize) = <<>>
    /\ \E t \in Range(TokensOf(i)) \cap DOMAIN DRESSER_RULES : ~HasItem(catalog, DRESSER_RULES[t])

\* the piano rule is asked about entry i, which names a grand piano, and
\* the catalog does not hold piano_grand
PianoTargetMissing(i) ==
    /\ ReachesPianoRule(i)
    /\ <<"g","r","a","n","d">> \in Range(TokensOf(i))
    /\ ~HasItem(catalog, <<"p","i","a","n","o","_","g","r","a","n","d">>)

FamilyTargetMissing(i) ==
    BedTargetMissing(i) \/ DresserTargetMissing(i) \/ PianoTargetMissing(i)

\* the lines of entry i that a strategy after the family rules emitted
LaterStrategyLines(i) ==
    {k \in LinesOf(i) : rr.lines[k].reason \in {"fuzzy_match", "category_backstop"}}

MissingGrandPianoLeftToLaterStrategy ==
    /\ Returned
    /\ catalog = OverridesOnlyCatalog
    /\ rr.status = "ok"
    /\ \E i \in EntryAt :
          /\ RawOf(i) = <<"g","r","a","n","d"," ","p","i","a","n","o"," ","b","e","n","c","h">>
          /\ PianoTargetMissing(i)
          /\ LaterStrategyLines(i) # {}

\* the lines of entry i carry none of these reasons and none of these ids
AvoidsRuleAndIds(i, reasons, ids) ==
    /\ LinesOf(i) # {}
    /\ \A k \in LinesOf(i) :
          rr.lines[k].reason \notin reasons /\ rr.lines[k].item_id \notin ids

CandidatesOf(i) ==
    {r \in 1..Len(catalog.alias_records) :
        _candidate_score(NormOf(i), catalog.alias_records[r]) >= op.options.confidence_floor}

\* the components of the key of the claim, for the record at position r
CoverageOf(i, r) == _candidate_coverage(TokensOf(i), catalog.alias_records[r])
ScoreOfRecord(i, r) == _candidate_score(NormOf(i), catalog.alias_records[r])
ItemOfRecord(r) == GetItem(catalog, catalog.alias_records[r].item_id)
MatchesHint(i, r) == ItemOfRecord(r).category = infer_category(TokensOf(i))
MedoidDistance(r) ==
    Abs(ItemOfRecord(r).weight_lbs
        - GetItem(catalog, MedoidId(catalog, ItemOfRecord(r).category)).weight_lbs)

\* the record at d comes before the record at c under the key: most
\* coverage, highest score, category equal to the hint, smallest distance
\* to the medoid of its category, lowest priority, smallest item id
ComesBefore(i, d, c) ==
    \/ CoverageOf(i, d) > CoverageOf(i, c)
    \/ /\ CoverageOf(i, d) = CoverageOf(i, c)
       /\ \/ ScoreOfRecord(i, d) > ScoreOfRecord(i, c)
          \/ /\ ScoreOfRecord(i, d) = ScoreOfRecord(i, c)
             /\ \/ MatchesHint(i, d) /\ ~MatchesHint(i, c)
                \/ /\ MatchesHint(i, d) = MatchesHint(i, c)
                   /\ \/ MedoidDistance(d) < MedoidDistance(c)
                      \/ /\ MedoidDistance(d) = MedoidDistance(c)
                         /\ \/ catalog.alias_records[d].priority
                                   < catalog.alias_records[c].priority
                            \/ /\ catalog.alias_records[d].priority
                                      = catalog.alias_records[c].priority
                               /\ StrLess(catalog.alias_records[d].item_id,
                                          catalog.alias_records[c].item_id)

\* the candidates of entry i that no candidate comes before
FirstUnderKey(i) == {c \in CandidatesOf(i) : \A d \in CandidatesOf(i) : ~ComesBefore(i, d, c)}

\* line k is the fuzzy line of the record at position c
IsFuzzyLineOf(i, k, c) ==
    /\ rr.lines[k].raw = RawOf(i)
    /\ rr.lines[k].reason = "fuzzy_match"
    /\ rr.lines[k].quantity = QuantityOf(i)
    /\ rr.lines[k].item_id = catalog.alias_records[c].item_id
    /\ rr.lines[k].alias = catalog.alias_records[c].alias
    /\ rr.lines[k].normalized = catalog.alias_records[c].normalized
    /\ rr.lines[k].confidence = ScoreOfRecord(i, c)
    /\ rr.lines[k].confidence >= op.options.confidence_floor

\* the entries the fuzzy strategy resolves
FuzzyEntries == {i \in EntryAt : Unmatched(i) /\ ~BelowFloor(i)}

\* C23: among the alias records whose score is at or above the confidence
\* floor, the fuzzy strategy chooses the candidate that comes first under
\* the lexicographic key (most token coverage, highest score, category
\* equal to the inferred category hint, smallest weight distance to its
\* category's medoid, lowest alias priority, smallest item id); the
\* fuzzy_match line has the confidence of that candidate's score, which is
\* at or above the floor.
FuzzyPicksFirstUnderKey ==
    (Returned /\ rr.status = "ok") =>
        \A i \in FuzzyEntries :
            /\ Cardinality(LinesOf(i)) = 1
            /\ \E k \in LinesOf(i) : \E c \in FirstUnderKey(i) : IsFuzzyLineOf(i, k, c)

\* C23 witness: for "gun safe refrigerator" the alias "refrigerator" has
\* the highest score and the alias "gun safe", which covers two tokens of
\* the label, is chosen
CoverageDecidedBeforeScore ==
    /\ Returned
    /\ rr.status = "ok"
    /\ catalog = FullCatalog
    /\ op.options = DefaultOptions
    /\ op.counter = <<[raw |-> <<"g","u","n"," ","s","a","f","e"," ","r","e","f","r","i","g","e","r","a","t","o","r">>, quantity |-> 1]>>
    /\ 1 \in FuzzyEntries
    /\ Cardinality(CandidatesOf(1)) = 2
    /\ \E c \in FirstUnderKey(1) : \E d \in CandidatesOf(1) :
          /\ IsFuzzyLineOf(1, 1, c)
          /\ catalog.alias_records[c].normalized = <<"g","u","n"," ","s","a","f","e">>
          /\ catalog.alias_records[d].normalized = <<"r","e","f","r","i","g","e","r","a","t","o","r">>
          /\ ScoreOfRecord(1, d) > ScoreOfRecord(1, c)
          /\ CoverageOf(1, c) = 2
          /\ CoverageOf(1, d) = 1

\* for "large" two aliases of rug_large tie on coverage, score, category and
\* weight, and the one registered at priority 0 is chosen
PriorityDecidedBetweenAliases ==
    /\ Returned
    /\ rr.status = "ok"
    /\ catalog = FullCatalog
    /\ op.options = DefaultOptions
    /\ op.counter = <<[raw |-> <<"l","a","r","g","e">>, quantity |-> 1]>>
    /\ 1 \in FuzzyEntries
    /\ \E c \in FirstUnderKey(1) : \E d \in CandidatesOf(1) :
          /\ IsFuzzyLineOf(1, 1, c)
          /\ catalog.alias_records[c].normalized = <<"r","u","g"," ","l","a","r","g","e">>
          /\ catalog.alias_records[d].normalized = <<"l","a","r","g","e"," ","r","u","g">>
          /\ ScoreOfRecord(1, d) = ScoreOfRecord(1, c)
          /\ CoverageOf(1, d) = CoverageOf(1, c)
          /\ catalog.alias_records[c].priority < catalog.alias_records[d].priority

(***************************************************************************)
(* C24                                                                     *)
(***************************************************************************)
\* the position of the record the fuzzy line k of entry i was built from
WinnerOf(i, k) == CHOOSE c \in CandidatesOf(i) : IsFuzzyLineOf(i, k, c)

\* the (item id, score) pair an alternate holds for the record at r
AlternateFor(i, r) == <<catalog.alias_records[r].item_id, ScoreOfRecord(i, r)>>

\* the sequences of distinct candidates of entry i, the one at w aside, that
\* are the n best-scoring ones: no candidate left out outscores one of them
BestAfter(i, w, n) ==
    {runners \in [1..n -> CandidatesOf(i) \ {w}] :
        /\ \A a, b \in 1..n : a # b => runners[a] # runners[b]
        /\ \A a \in 1..n :
              \A d \in CandidatesOf(i) \ ({w} \cup Range(runners)) :
                  ScoreOfRecord(i, d) <= ScoreOfRecord(i, runners[a])}

\* the alternates of line k are those of the best-scoring candidates after
\* its winner, two at most
AlternatesAreRunnersUp(i, k) ==
    /\ Len(rr.lines[k].alternates) = Min(2, Cardinality(CandidatesOf(i)) - 1)
    /\ \E runners \in BestAfter(i, WinnerOf(i, k), Len(rr.lines[k].alternates)) :
          \A a \in 1..Len(runners) : rr.lines[k].alternates[a] = AlternateFor(i, runners[a])

\* C24: the alternates of a fuzzy_match line are at most two candidates, all
\* different from the chosen candidate: they are the best-scoring candidates
\* after the winner, so the chosen alias record never appears among its own
\* alternates and no candidate that outscores an alternate is left out other
\* than the winner.
AlternatesAreBestAfterWinner ==
    (Returned /\ rr.status = "ok") =>
        \A i \in FuzzyEntries : \A k \in LinesOf(i) : AlternatesAreRunnersUp(i, k)

\* C24, the failing input: for "gun safe refrigerator" the alias "gun safe"
\* wins on coverage with the second score; the only alternate listed is
\* the winner itself, and "refrigerator", which outscores it, is left out
WinnerListedAmongItsAlternates ==
    /\ Returned
    /\ rr.status = "ok"
    /\ catalog = FullCatalog
    /\ op.options = DefaultOptions
    /\ op.counter = <<[raw |-> <<"g","u","n"," ","s","a","f","e"," ","r","e","f","r","i","g","e","r","a","t","o","r">>, quantity |-> 1]>>
    /\ 1 \in FuzzyEntries
    /\ catalog.alias_records[WinnerOf(1, 1)].normalized = <<"g","u","n"," ","s","a","f","e">>
    /\ rr.lines[1].alternates = <<AlternateFor(1, WinnerOf(1, 1))>>
    /\ \E d \in CandidatesOf(1) :
          /\ catalog.alias_records[d].normalized = <<"r","e","f","r","i","g","e","r","a","t","o","r">>
          /\ ScoreOfRecord(1, d) > ScoreOfRecord(1, WinnerOf(1, 1))
          /\ AlternateFor(1, d) \notin Range(rr.lines[1].alternates)

\* the winner has the highest score of the candidates of entry i
WinnerScoresHighest(i, k) ==
    \A d \in CandidatesOf(i) : ScoreOfRecord(i, d) <= ScoreOfRecord(i, WinnerOf(i, k))

\* C24, where the winner is a top-scoring candidate: the alternates are the
\* best-scoring candidates after it
AlternatesFollowTopScoringWinner ==
    (Returned /\ rr.status = "ok") =>
        \A i \in FuzzyEntries : \A k \in LinesOf(i) :
            WinnerScoresHighest(i, k) => AlternatesAreRunnersUp(i, k)

\* "couch sofa" resolved to the alias "sofa couch", with the alias "couch"
\* of the same item as its alternate
CouchListedAfterSofaCouch ==
    /\ Returned
    /\ rr.status = "ok"
    /\ catalog = FullCatalog
    /\ op.options = DefaultOptions
    /\ op.counter = <<[raw |-> <<"c","o","u","c","h"," ","s","o","f","a">>, quantity |-> 1]>>
    /\ 1 \in FuzzyEntries
    /\ WinnerScoresHighest(1, 1)
    /\ rr.lines[1].normalized = <<"s","o","f","a"," ","c","o","u","c","h">>
    /\ Len(rr.lines[1].alternates) >= 1
    /\ rr.lines[1].alternates[1][1] = <<"s","o","f","a","_","t","h","r","e","e","_","s","e","a","t">>

(***************************************************************************)
(* C25                                                                     *)
(***************************************************************************)
\* the best_match assumptions that name the raw label and the item of line k
AuditEntriesOf(k) ==
    {a \in 1..Len(rr.assumptions) :
        /\ rr.assumptions[a].type = "best_match"
        /\ rr.assumptions[a].raw = rr.lines[k].raw
        /\ rr.assumptions[a].chosen_id = rr.lines[k].item_id}

\* C25: in every ResolverResult, each resolved line has at least one
\* best_match assumption whose raw and chosen_id equal the line's raw label
\* and matched item id, whichever strategy produced the line (including
\* box_distribution and family_bed lines).
EveryLineHasBestMatchEntry ==
    (Returned /\ rr.status = "ok") =>
        \A k \in 1..Len(rr.lines) : AuditEntriesOf(k) # {}

\* C25 witness: the bed batch of the example, whose three accessories
\* resolve by the bed rule, each line with a best_match entry written after
\* the size_inheritance entry
BedLinesHaveBestMatchEntries ==
    /\ Returned
    /\ rr.status = "ok"
    /\ catalog = FullCatalog
    /\ Len(op.counter) = 4
    /\ Cardinality({k \in 1..Len(rr.lines) : rr.lines[k].reason = "family_bed"}) = 3
    /\ \A k \in 1..Len(rr.lines) :
          /\ AuditEntriesOf(k) # {}
          /\ \A a \in AuditEntriesOf(k) : rr.assumptions[a].resolver = rr.lines[k].reason
    /\ \E s \in 1..Len(rr.assumptions) :
          /\ rr.assumptions[s].type = "size_inheritance"
          /\ \A k \in 1..Len(rr.lines) :
                rr.lines[k].reason = "family_bed" => \A a \in AuditEntriesOf(k) : s < a

\* boxes next to a fuzzy match: a box line has a best_match entry naming
\* box_distribution, the fuzzy line the one entry the fuzzy strategy wrote
BoxLinesHaveBestMatchEntries ==
    /\ Returned
    /\ rr.status = "ok"
    /\ catalog = FullCatalog
    /\ op.counter = <<[raw |-> <<"d","r","e","s","e","r">>, quantity |-> 1], [raw |-> <<"b","o","x">>, quantity |-> MaxQty]>>
    /\ \E k \in 1..Len(rr.lines) :
          /\ rr.lines[k].reason = "box_distribution"
          /\ \E a \in AuditEntriesOf(k) : rr.assumptions[a].resolver = "box_distribution"
    /\ \E k \in 1..Len(rr.lines) :
          /\ rr.lines[k].reason = "fuzzy_match"
          /\ Cardinality(AuditEntriesOf(k)) = 1
          /\ \E a \in AuditEntriesOf(k) : rr.assumptions[a].resolver = "fuzzy"

(***************************************************************************)
(* C26                                                                     *)
(***************************************************************************)
\* the tokens of the label of the call after singularize, before any
\* reordering
NormalizedTokens == Singulars(tokenize(Working(op.raw)))

\* the token list ends with the box keyword and does not start with it
EndsWithBox(tokens) ==
    /\ Len(tokens) >= 2
    /\ tokens[Len(tokens)] = <<"b","o","x">>
    /\ tokens[1] # <<"b","o","x">>

\* C26: for every label whose normalized token list ends with the token box
\* and does not start with it, whatever its number of tokens (2 or more),
\* normalize_label returns a string whose first token is box.
TrailingBoxMovesToFront ==
    (op.name = "normalize_label" /\ EndsWithBox(NormalizedTokens)) =>
        tokenize(ret)[1] = <<"b","o","x">>

\* C26, the failing input: the four tokens of "big old wooden box" keep
\* their order
FourTokenLabelKeepsBoxLast ==
    /\ op.name = "normalize_label"
    /\ op.raw = <<"b","i","g"," ","o","l","d"," ","w","o","o","d","e","n"," ","b","o","x">>
    /\ Len(NormalizedTokens) = 4
    /\ EndsWithBox(NormalizedTokens)
    /\ ret = <<"b","i","g"," ","o","l","d"," ","w","o","o","d","e","n"," ","b","o","x">>

\* C26, for the labels of two and three tokens: the box keyword comes first
ShortLabelsMoveBoxToFront ==
    (/\ op.name = "normalize_label"
     /\ EndsWithBox(NormalizedTokens)
     /\ Len(NormalizedTokens) <= 3) =>
        tokenize(ret)[1] = <<"b","o","x">>

\* a label of three tokens whose trailing box was moved to the front
ThreeTokenLabelStartsWithBox ==
    /\ op.name = "normalize_label"
    /\ op.raw = <<"o","l","d"," ","w","o","o","d","e","n"," ","b","o","x">>
    /\ ret = <<"b","o","x"," ","o","l","d"," ","w","o","o","d","e","n">>

(***************************************************************************)
(* C27                                                                     *)
(***************************************************************************)
\* C27: normalize_label is idempotent: for every input string s,
\* normalize_label(normalize_label(s)) equals normalize_label(s), so a
\* normalized key that is normalized again yields the same key.
NormalizeLabelIsIdempotent ==
    op.name = "normalize_again" => ret = prev

\* C27, the failing input: "small box" normalizes to "box 1.5", which
\* normalizes to "box 1 5"
SmallBoxKeyChangesWhenNormalizedAgain ==
    /\ op.name = "normalize_again"
    /\ op.raw = <<"s","m","a","l","l"," ","b","o","x">>
    /\ prev = <<"b","o","x"," ","1",".","5">>
    /\ ret = <<"b","o","x"," ","1"," ","5">>

\* C27, for the labels the size table does not rewrite: the second
\* application returns the string of the first
UnsizedLabelsNormalizeOnce ==
    (op.name = "normalize_again" /\ NormalizedTokens \notin DOMAIN _PAIR_REORDER) =>
        ret = prev

(***************************************************************************)
(* C28                                                                     *)
(***************************************************************************)
\* the tokens of the dresser rule that name a piece of furniture, and the
\* keys of DRESSER_RULES that are size adjectives
DresserFurnitureTokens == {<<"d","r","e","s","s","e","r">>, <<"b","u","r","e","a","u">>, <<"h","i","g","h","b","o","y">>, <<"l","o","w","b","o","y">>, <<"c","h","e","s","t">>}
DresserSizeAdjectives == {<<"t","a","l","l">>, <<"d","o","u","b","l","e">>, <<"w","i","d","e">>}

\* C28: a label is resolved with reason family_dresser only if it contains
\* at least one of the furniture tokens dresser, bureau, highboy, lowboy or
\* chest; a label whose only keyword from the dresser table is a size
\* adjective (tall, double or wide) is never resolved to a dresser item by
\* the dresser family rule.
DresserRuleNeedsFurnitureToken ==
    (Returned /\ rr.status = "ok") =>
        \A i \in EntryAt : \A k \in LinesOf(i) :
            rr.lines[k].reason = "family_dresser" =>
                Range(TokensOf(i)) \cap DresserFurnitureTokens # {}

\* C28, the failing input: "tall lamp", whose only keyword of the dresser
\* table is the adjective tall, is resolved to the tall dresser
TallLampResolvedAsDresser ==
    /\ Returned
    /\ rr.status = "ok"
    /\ op.counter = <<[raw |-> <<"t","a","l","l"," ","l","a","m","p">>, quantity |-> 1]>>
    /\ Range(TokensOf(1)) \cap DresserFurnitureTokens = {}
    /\ Range(TokensOf(1)) \cap DOMAIN DRESSER_RULES = {<<"t","a","l","l">>}
    /\ Len(rr.lines) = 1
    /\ rr.lines[1].reason = "family_dresser"
    /\ rr.lines[1].item_id = <<"d","r","e","s","s","e","r","_","t","a","l","l">>
    /\ rr.lines[1].confidence = 850

\* what the rule does require: a key of DRESSER_RULES, or dresser or bureau
DresserRuleNeedsTableKey ==
    (Returned /\ rr.status = "ok") =>
        \A i \in EntryAt : \A k \in LinesOf(i) :
            rr.lines[k].reason = "family_dresser" =>
                Range(TokensOf(i)) \cap (DOMAIN DRESSER_RULES \cup {<<"d","r","e","s","s","e","r">>, <<"b","u","r","e","a","u">>}) # {}

(***************************************************************************)
(* C29                                                                     *)
(***************************************************************************)
\* line k is the bench line of a piano label
IsBenchLine(k) ==
    /\ rr.lines[k].item_id = <<"b","e","n","c","h","_","p","i","a","n","o">>
    /\ rr.lines[k].reason = "family_piano"
    /\ \E i \in EntryAt : rr.lines[k].raw = RawOf(i) \o <<" ","(","b","e","n","c","h",")">>

\* the quantities of the lines at the positions in K, added up
QuantityOfLines(K) ==
    SumSeq([k \in 1..Len(rr.lines) |-> IF k \in K THEN rr.lines[k].quantity ELSE 0])

\* the quantity entry i contributes to the lines, its bench line aside
ContributionOf(i) == QuantityOfLines({k \in LinesOf(i) : ~IsBenchLine(k)})

\* the positive input quantities of the labels with a normalized form
InputQuantity ==
    SumSeq([i \in 1..Len(op.counter) |-> IF WellFormed(i) THEN QuantityOf(i) ELSE 0])

TenBoxesAddUp ==
    /\ Returned
    /\ rr.status = "ok"
    /\ op.options = DefaultOptions
    /\ op.counter = <<[raw |-> <<"B","o","x","e","s">>, quantity |-> 10]>>
    /\ Cardinality(LinesOf(1)) = 4
    /\ ContributionOf(1) = 10

(***************************************************************************)
(* Specification SpecConcurrent: concurrent calls of get_or_set with one   *)
(* key and one body, on the in-process store and on the Redis-backed one.  *)
(* A caller runs the statements of get_or_set one step at a time; the      *)
(* calls are all made within the TTL of one another.                       *)
(***************************************************************************)
\* the number of concurrent callers
MaxCallers == 2

Callers == 1..MaxCallers

\* the key and the body every caller passes
SharedKey == <<"a","b","c","1","2","3">>
SharedBody == <<"i","t","e","m","s","=","s","o","f","a">>

\* the record the Redis branch writes with setex at time now, which Redis
\* drops after ttl seconds
RedisPayload(body, response, now) ==
    [body_hash |-> Sha256(body), response_json |-> json_dumps(response), set_at |-> now]

\* self._redis.get(namespaced) finds a record that has not expired
RedisHolds(keys, key, now) == key \in DOMAIN keys /\ now - keys[key].set_at < Ttl

NoReturn == [status |-> "none", value |-> <<>>]

InitConcurrent ==
    /\ catalog = <<>>
    /\ rules = <<>>
    /\ boxes = <<>>
    /\ rr = <<>>
    /\ quote = <<>>
    /\ packing_catalog = <<>>
    /\ store = <<>>
    /\ clock = 0
    /\ prev = <<>>
    /\ ret = [p \in Callers |-> NoReturn]
    /\ \E backend \in {"local", "redis"} :
          op = [name |-> "concurrent", backend |-> backend, key |-> SharedKey,
                body |-> SharedBody, lock |-> 0,
                pc |-> [p \in Callers |-> "start"],
                now |-> [p \in Callers |-> 0],
                response |-> [p \in Callers |-> <<>>]]

\* the caller returns or raises
Returns(p, status, value) == ret' = [ret EXCEPT ![p] = [status |-> status, value |-> value]]

\* with self._lock: the caller enters when no caller holds the lock
Acquire(p) ==
    /\ op.backend = "local"
    /\ op.pc[p] = "start"
    /\ op.lock = 0
    /\ op' = [op EXCEPT !.lock = p, !.pc[p] = "locked"]
    /\ UNCHANGED <<catalog, rules, boxes, rr, prev, quote, ret, store, clock, packing_catalog>>

\* lines 73-78 under the lock: a live record is returned, or conflicts, and
\* the lock is released; otherwise the caller goes on to compute
LocalLookup(p) ==
    /\ op.pc[p] = "locked"
    /\ IF Live(store, op.key, clock)
       THEN /\ op' = [op EXCEPT !.lock = 0, !.pc[p] = "done", !.now[p] = clock]
            /\ IF store[op.key].body_hash # Sha256(op.body)
               THEN Returns(p, "409", <<>>)
               ELSE Returns(p, "ok", json_loads(store[op.key].response_json))
       ELSE /\ op' = [op EXCEPT !.pc[p] = "computing", !.now[p] = clock]
            /\ UNCHANGED ret
    /\ UNCHANGED <<catalog, rules, boxes, rr, prev, quote, store, clock, packing_catalog>>

\* lines 79-81 under the lock: compute() returns and the record is written
\* with the time read before it, or compute() raises; the lock is released
LocalCompute(p) ==
    /\ op.backend = "local"
    /\ op.pc[p] = "computing"
    /\ \/ \E response \in ResponsePayloads :
             /\ prev' = Append(prev, [caller |-> p, response |-> response])
             /\ store' = (op.key :> [body_hash |-> Sha256(op.body),
                                     response_json |-> json_dumps(response),
                                     created_at |-> op.now[p]]) @@ store
             /\ Returns(p, "ok", response)
       \/ /\ Returns(p, "raised", <<>>)
          /\ UNCHANGED <<prev, store>>
    /\ op' = [op EXCEPT !.lock = 0, !.pc[p] = "done"]
    /\ UNCHANGED <<catalog, rules, boxes, rr, quote, clock, packing_catalog>>

\* lines 61-67: self._redis.get, and the stored response returned on a hit
RedisGet(p) ==
    /\ op.backend = "redis"
    /\ op.pc[p] = "start"
    /\ IF RedisHolds(store, op.key, clock)
       THEN /\ op' = [op EXCEPT !.pc[p] = "done"]
            /\ IF store[op.key].body_hash # Sha256(op.body)
               THEN Returns(p, "409", <<>>)
               ELSE Returns(p, "ok", json_loads(store[op.key].response_json))
       ELSE /\ op' = [op EXCEPT !.pc[p] = "computing"]
            /\ UNCHANGED ret
    /\ UNCHANGED <<catalog, rules, boxes, rr, prev, quote, store, clock, packing_catalog>>

\* line 68: compute() returns, or raises out of get_or_set
RedisCompute(p) ==
    /\ op.backend = "redis"
    /\ op.pc[p] = "computing"
    /\ \/ \E response \in ResponsePayloads :
             /\ prev' = Append(prev, [caller |-> p, response |-> response])
             /\ op' = [op EXCEPT !.pc[p] = "computed", !.response[p] = response]
             /\ UNCHANGED ret
       \/ /\ op' = [op EXCEPT !.pc[p] = "done"]
          /\ Returns(p, "raised", <<>>)
          /\ UNCHANGED prev
    /\ UNCHANGED <<catalog, rules, boxes, rr, quote, store, clock, packing_catalog>>

\* lines 69-71: self._redis.setex writes the record, whatever the key holds
RedisSetex(p) ==
    /\ op.pc[p] = "computed"
    /\ store' = (op.key :> RedisPayload(op.body, op.response[p], clock)) @@ store
    /\ op' = [op EXCEPT !.pc[p] = "done"]
    /\ Returns(p, "ok", op.response[p])
    /\ UNCHANGED <<catalog, rules, boxes, rr, prev, quote, clock, packing_catalog>>

\* time moves on, short of the TTL
TickWithinTtl ==
    /\ clock + 1 < Ttl
    /\ clock' = clock + 1
    /\ UNCHANGED <<catalog, rules, op, boxes, rr, prev, quote, ret, store, packing_catalog>>

NextConcurrent ==
    \/ \E p \in Callers : Acquire(p)
    \/ \E p \in Callers : LocalLookup(p)
    \/ \E p \in Callers : LocalCompute(p)
    \/ \E p \in Callers : RedisGet(p)
    \/ \E p \in Callers : RedisCompute(p)
    \/ \E p \in Callers : RedisSetex(p)
    \/ TickWithinTtl

SpecConcurrent == InitConcurrent /\ [][NextConcurrent]_vars

(***************************************************************************)
(* C30                                                                     *)
(***************************************************************************)
\* the callers whose compute() returned, in the order of their returns
Computed == {prev[k].caller : k \in 1..Len(prev)}

\* the response of the first compute() that returned, as the store gives
\* it back
StoredResponse == json_loads(json_dumps(prev[1].response))

\* compute returned at most once, and every other caller that returned got
\* the stored response
ComputedOnce ==
    /\ Len(prev) <= 1
    /\ \A p \in Callers \ Computed :
          ret[p].status = "ok" => (prev # <<>> /\ ret[p].value = StoredResponse)

\* C30: for concurrent get_or_set calls that carry the same non-empty key
\* and the same body, compute completes successfully at most once within
\* the TTL under every interleaving, both for the in-process store and for
\* the Redis-backed store; every other caller receives the stored response.
ComputeCompletesAtMostOnce == op.name = "concurrent" => ComputedOnce

\* C30, the failing interleaving: on the Redis-backed store both callers
\* read the key before either wrote it, both computed, and they returned
\* different responses, the later setex replacing the record of the earlier
BothRedisCallersComputed ==
    /\ op.name = "concurrent"
    /\ op.backend = "redis"
    /\ \A p \in Callers : op.pc[p] = "done" /\ ret[p].status = "ok"
    /\ Len(prev) = MaxCallers
    /\ Computed = Callers
    /\ ret[1].value # ret[2].value
    /\ RedisHolds(store, op.key, clock)

\* C30 on the in-process store, where the lock makes the lookup, the
\* computation and the write one step for the other callers
LocalStoreComputesOnce ==
    (op.name = "concurrent" /\ op.backend = "local") => ComputedOnce

\* on the in-process store the second caller got the response of the first
\* back, read from the stored JSON, without computing
SecondLocalCallerGotStoredResponse ==
    /\ op.name = "concurrent"
    /\ op.backend = "local"
    /\ \A p \in Callers : op.pc[p] = "done" /\ ret[p].status = "ok"
    /\ Len(prev) = 1
    /\ \E p \in Callers \ Computed : ret[p].value = StoredResponse
    /\ StoredResponse.alternates # <<>>

====
